---- MODULE Spec2Model ----
(***************************************************************************)
(* Routing subsystem of the AI-engine driver (driver/src/routing):         *)
(* the per-tile resource table, the catalog of programmed routes, the      *)
(* breadth-first path finder, the path programmer, the data mover and      *)
(* the teardown call, as implemented in xaie_routing.c.                    *)
(***************************************************************************)
EXTENDS Integers, Sequences, FiniteSets, TLC

(***************************************************************************)
(* Bounds of the model.                                                    *)
(***************************************************************************)
NumCols == 2
NumRows == 3
MaxCalls == 2
MaxListed == 1
MaxWarmCalls == 1
MaxLeaks == 16
MaxResetTiles == 2
MaxResetFailAt == 2

(***************************************************************************)
(* Device layout (test/stest/hw_config.h, SystemC configuration).          *)
(***************************************************************************)
XAIE_SHIM_ROW == 0
XAIE_MEM_TILE_ROW_START == 1
XAIE_MEM_TILE_NUM_ROWS == 1
XAIE_AIE_TILE_ROW_START == 2
XAIE_AIE_TILE_NUM_ROWS == NumRows - XAIE_AIE_TILE_ROW_START

Tiles == (0 .. NumCols - 1) \X (0 .. NumRows - 1)

XAie_TileLoc(col, row) == <<col % 256, row % 256>>

(***************************************************************************)
(* Bit fields: u8 / u64 masks kept as integers, bit i set <=> free.        *)
(***************************************************************************)
Pow2(i) == 2 ^ i

BitSet(mask, i) == (mask \div Pow2(i)) % 2 = 1

ClearBit(mask, i) == IF BitSet(mask, i) THEN mask - Pow2(i) ELSE mask

SetBit(mask, i) == IF BitSet(mask, i) THEN mask + 0 ELSE mask + Pow2(i)

\* a u64 mask (BDState) is kept as the set of positions of its set bits
BitsBelow(n) == 0 .. n - 1

\* for (int i = 0; i < 8; i++) if (mask & (1 << i)) return i;  ... return -1
FirstSetBit(mask) ==
    IF \E i \in 0 .. 7 : BitSet(mask, i)
    THEN CHOOSE i \in 0 .. 7 : BitSet(mask, i) /\ \A j \in 0 .. i - 1 : ~BitSet(mask, j)
    ELSE -1

\* for (int i = 0; i < 8; i++) if ((a & (1 << i)) && (b & (1 << i))) return i;
FirstCommonBit(a, b) ==
    IF \E i \in 0 .. 7 : BitSet(a, i) /\ BitSet(b, i)
    THEN CHOOSE i \in 0 .. 7 :
            /\ BitSet(a, i) /\ BitSet(b, i)
            /\ \A j \in 0 .. i - 1 : ~(BitSet(a, j) /\ BitSet(b, j))
    ELSE -1

(***************************************************************************)
(* Tile kinds and the table XAie_InitRoutingHandler builds.                *)
(***************************************************************************)
MemTileEnd ==
    IF XAIE_MEM_TILE_ROW_START > 0
    THEN XAIE_MEM_TILE_ROW_START + XAIE_MEM_TILE_NUM_ROWS - 1
    ELSE 0

AieTileRowEnd == XAIE_AIE_TILE_ROW_START + XAIE_AIE_TILE_NUM_ROWS

isShimTileRow(row) == row = XAIE_SHIM_ROW
isMemTileRow(row) == row >= XAIE_MEM_TILE_ROW_START /\ row <= MemTileEnd
isAieTile(row) == row >= XAIE_AIE_TILE_ROW_START /\ row <= AieTileRowEnd

\* an empty list of programmed routes: routesDB == NULL
NullRoutesDB == [list |-> << >>, term |-> "null"]

\* a memory tile whose east and west ports were given the masks of an AIE tile
MemTileConstraint_EastWest ==
    [ isAutoConfigured |-> FALSE, tile_type |-> "XAIE_AIE_MEM",
      S2MM_State |-> 63, MM2S_State |-> 63, ShimS2MM_State |-> 0, ShimMM2S_State |-> 0,
      BDState |-> BitsBelow(48),
      SlaveEast |-> 15, SlaveWest |-> 15, SlaveSouth |-> 63, SlaveNorth |-> 15,
      MasterEast |-> 15, MasterWest |-> 15, MasterSouth |-> 15, MasterNorth |-> 63,
      Host2AIEPorts |-> "NULL", Host2AIEPortCount |-> 0,
      AIE2HostPorts |-> "NULL", AIE2HostPortCount |-> 0,
      routesDB |-> NullRoutesDB, isCoreExecuting |-> FALSE ]

MemTileConstraint ==
    [ isAutoConfigured |-> FALSE, tile_type |-> "XAIE_AIE_MEM",
      S2MM_State |-> 63, MM2S_State |-> 63, ShimS2MM_State |-> 0, ShimMM2S_State |-> 0,
      BDState |-> BitsBelow(48),
      SlaveEast |-> 0, SlaveWest |-> 0, SlaveSouth |-> 63, SlaveNorth |-> 15,
      MasterEast |-> 0, MasterWest |-> 0, MasterSouth |-> 15, MasterNorth |-> 63,
      Host2AIEPorts |-> "NULL", Host2AIEPortCount |-> 0,
      AIE2HostPorts |-> "NULL", AIE2HostPortCount |-> 0,
      routesDB |-> NullRoutesDB, isCoreExecuting |-> FALSE ]

AieTileConstraint ==
    [ isAutoConfigured |-> FALSE, tile_type |-> "XAIE_AIE_CORE",
      S2MM_State |-> 3, MM2S_State |-> 3, ShimS2MM_State |-> 0, ShimMM2S_State |-> 0,
      BDState |-> BitsBelow(16),
      SlaveEast |-> 15, SlaveWest |-> 15, SlaveSouth |-> 63, SlaveNorth |-> 15,
      MasterEast |-> 15, MasterWest |-> 15, MasterSouth |-> 15, MasterNorth |-> 63,
      Host2AIEPorts |-> "NULL", Host2AIEPortCount |-> 0,
      AIE2HostPorts |-> "NULL", AIE2HostPortCount |-> 0,
      routesDB |-> NullRoutesDB, isCoreExecuting |-> FALSE ]

ShimTileConstraint ==
    [ isAutoConfigured |-> FALSE, tile_type |-> "XAIE_AIE_SHIM",
      S2MM_State |-> 3, MM2S_State |-> 3, ShimS2MM_State |-> 3, ShimMM2S_State |-> 3,
      BDState |-> BitsBelow(16),
      SlaveEast |-> 15, SlaveWest |-> 15, SlaveSouth |-> 0, SlaveNorth |-> 15,
      MasterEast |-> 15, MasterWest |-> 15, MasterSouth |-> 0, MasterNorth |-> 63,
      Host2AIEPorts |-> "default", Host2AIEPortCount |-> 2,
      AIE2HostPorts |-> "default", AIE2HostPortCount |-> 2,
      routesDB |-> NullRoutesDB, isCoreExecuting |-> FALSE ]

\* the two arrays allocated once and handed to every shim tile
defaultHost2AIEPortChannelMapping ==
    << [port |-> 3, channel |-> 0, availability |-> TRUE],
       [port |-> 7, channel |-> 1, availability |-> TRUE] >>

defaultAIE2HostPortChannelMapping ==
    << [port |-> 2, channel |-> 0, availability |-> TRUE],
       [port |-> 3, channel |-> 1, availability |-> TRUE] >>

XAie_InitRoutingHandler ==
    [ cc |-> [t \in Tiles |->
                IF isMemTileRow(t[2]) /\ ~isShimTileRow(t[2]) THEN MemTileConstraint
                ELSE IF isAieTile(t[2]) THEN AieTileConstraint
                ELSE ShimTileConstraint],
      h2a |-> defaultHost2AIEPortChannelMapping,
      a2h |-> defaultAIE2HostPortChannelMapping ]

_XAie_isShimTile(st, tile) == st.cc[tile].tile_type = "XAIE_AIE_SHIM"

_XAie_isMemTile(st, tile) == st.cc[tile].tile_type = "XAIE_AIE_MEM"

\* the entries of a tile's host-to-array / array-to-host mapping
Host2AIEPortsOf(st, tile) ==
    IF st.cc[tile].Host2AIEPorts = "default"
    THEN SubSeq(st.h2a, 1, st.cc[tile].Host2AIEPortCount)
    ELSE << >>

AIE2HostPortsOf(st, tile) ==
    IF st.cc[tile].AIE2HostPorts = "default"
    THEN SubSeq(st.a2h, 1, st.cc[tile].AIE2HostPortCount)
    ELSE << >>

(***************************************************************************)
(* Port bookkeeping.                                                       *)
(***************************************************************************)
SlaveField(dir) ==
    CASE dir = "SOUTH" -> "SlaveSouth"
      [] dir = "NORTH" -> "SlaveNorth"
      [] dir = "EAST" -> "SlaveEast"
      [] dir = "WEST" -> "SlaveWest"
      [] dir = "DMA" -> "MM2S_State"

MasterField(dir) ==
    CASE dir = "SOUTH" -> "MasterSouth"
      [] dir = "NORTH" -> "MasterNorth"
      [] dir = "EAST" -> "MasterEast"
      [] dir = "WEST" -> "MasterWest"
      [] dir = "DMA" -> "S2MM_State"

\* availability = SetOrUnset on every entry of the tile's mapping whose port matches
SetAvailability(mapping, count, port, SetOrUnset) ==
    [i \in 1 .. Len(mapping) |->
        IF i <= count /\ mapping[i].port = port
        THEN [mapping[i] EXCEPT !.availability = SetOrUnset]
        ELSE mapping[i]]

_XAie_updatePortAvailabilityForShimDmaToAie(st, tile, port, SetOrUnset) ==
    IF ~_XAie_isShimTile(st, tile) \/ st.cc[tile].Host2AIEPorts # "default" THEN st
    ELSE [st EXCEPT !.h2a = SetAvailability(st.h2a, st.cc[tile].Host2AIEPortCount,
                                            port, SetOrUnset)]

_XAie_updatePortAvailabilityForAieToShimDma(st, tile, port, SetOrUnset) ==
    IF ~_XAie_isShimTile(st, tile) \/ st.cc[tile].AIE2HostPorts # "default" THEN st
    ELSE [st EXCEPT !.a2h = SetAvailability(st.a2h, st.cc[tile].AIE2HostPortCount,
                                            port, SetOrUnset)]

_XAie_updatePortAvailabilityForStrmConn(st, tile, portSource, sourceStream, portDest, destStream) ==
    LET c0 == st.cc[tile]
        sf == SlaveField(portSource)
        mf == MasterField(portDest)
        c1 == [c0 EXCEPT ![sf] = ClearBit(c0[sf], sourceStream)]
        c2 == [c1 EXCEPT ![mf] = ClearBit(c1[mf], destStream)]
    IN [st EXCEPT !.cc[tile] = c2]

_XAie_updatePortAvailabilityForStrmConnInverse(st, tile, portSource, sourceStream, portDest, destStream) ==
    LET c0 == st.cc[tile]
        sf == SlaveField(portSource)
        mf == MasterField(portDest)
        c1 == [c0 EXCEPT ![sf] = SetBit(c0[sf], sourceStream)]
        c2 == [c1 EXCEPT ![mf] = SetBit(c1[mf], destStream)]
    IN [st EXCEPT !.cc[tile] = c2]

findFirstMatchingStreamForDestination(st, SourceTile, DestinationTile, SourceDirection) ==
    LET s == st.cc[SourceTile]
        d == st.cc[DestinationTile]
    IN CASE SourceDirection = "NORTH" -> FirstCommonBit(s.MasterNorth, d.SlaveSouth)
         [] SourceDirection = "SOUTH" -> FirstCommonBit(s.MasterSouth, d.SlaveNorth)
         [] SourceDirection = "EAST" -> FirstCommonBit(s.MasterEast, d.SlaveWest)
         [] SourceDirection = "WEST" -> FirstCommonBit(s.MasterWest, d.SlaveEast)

FirstAvailablePort(mapping) ==
    IF \E i \in 1 .. Len(mapping) : mapping[i].availability
    THEN mapping[CHOOSE i \in 1 .. Len(mapping) :
                    /\ mapping[i].availability
                    /\ \A j \in 1 .. i - 1 : ~mapping[j].availability].port
    ELSE -1

_XAie_findFirstMatchingStream(st, tile, direction, isEndTile) ==
    LET c == st.cc[tile]
        shimPort == IF isEndTile THEN FirstAvailablePort(AIE2HostPortsOf(st, tile))
                    ELSE FirstAvailablePort(Host2AIEPortsOf(st, tile))
        portAvailability ==
            CASE direction = "NORTH" -> c.SlaveNorth
              [] direction = "SOUTH" -> c.SlaveSouth
              [] direction = "EAST" -> c.SlaveEast
              [] direction = "WEST" -> c.SlaveWest
              [] direction = "DMA" -> IF isEndTile THEN c.S2MM_State ELSE c.MM2S_State
    IN IF _XAie_isShimTile(st, tile) /\ shimPort # -1 THEN shimPort
       ELSE FirstSetBit(portAvailability)

(***************************************************************************)
(* Route constraints and the path finder.                                  *)
(***************************************************************************)
\* RouteConstraints == NULL behaves as two empty lists
NoConstraints == [BlackListedCores |-> {}, WhiteListedCores |-> {}]

_XAie_isTileBlackListed(CurrTile, RouteConstraints) ==
    CurrTile \in RouteConstraints.BlackListedCores

_XAie_isTileWhitelisted(CurrTile, RouteConstraints) ==
    CurrTile \in RouteConstraints.WhiteListedCores

_XAie_isAdjTileValidForCurrTile(st, RouteConstraints, currentTile, adjTile, direction, visited) ==
    IF ~(adjTile[1] < NumCols /\ adjTile[2] < NumRows) THEN FALSE
    ELSE LET cur == st.cc[currentTile]
             adj == st.cc[adjTile]
             isPortAvailable ==
                CASE direction = "NORTH" -> cur.SlaveNorth # 0 /\ adj.MasterSouth # 0
                  [] direction = "SOUTH" -> cur.SlaveSouth # 0 /\ adj.MasterNorth # 0
                  [] direction = "EAST" -> cur.SlaveEast # 0 /\ adj.MasterWest # 0
                  [] direction = "WEST" -> cur.SlaveWest # 0 /\ adj.MasterEast # 0
         IN /\ ~_XAie_isTileBlackListed(adjTile, RouteConstraints)
            /\ adjTile \notin visited
            /\ isPortAvailable

\* dRow[], dCol[], StrmSwPort[] of the search loop: North, South, East, West
dRow == << 1, -1, 0, 0 >>
dCol == << 0, 0, 1, -1 >>
StrmSwPort == << "NORTH", "SOUTH", "EAST", "WEST" >>

\* the walk of the parent chain from the destination back to (not including) the source
RECURSIVE allWhitelisted(_, _, _, _)
allWhitelisted(RouteConstraints, Pred, temp, source) ==
    IF temp = source THEN TRUE
    ELSE IF /\ RouteConstraints.WhiteListedCores # {}
            /\ ~_XAie_isTileWhitelisted(temp, RouteConstraints)
         THEN FALSE
         ELSE allWhitelisted(RouteConstraints, Pred, Pred[temp], source)

RECURSIVE ScanNeighbours(_, _, _, _, _, _, _)
ScanNeighbours(st, RouteConstraints, source, destination, current, i, s) ==
    IF i > 4 THEN s
    ELSE LET adj == XAie_TileLoc(current[1] + dCol[i], current[2] + dRow[i])
         IN IF _XAie_isAdjTileValidForCurrTile(st, RouteConstraints, current, adj,
                                               StrmSwPort[i], s.visited)
            THEN LET s1 == [ queue |-> Append(s.queue, adj),
                             visited |-> s.visited \cup {adj},
                             Pred |-> [s.Pred EXCEPT ![adj] = current],
                             found |-> FALSE ]
                 IN IF adj = destination
                       /\ allWhitelisted(RouteConstraints, s1.Pred, adj, source)
                    THEN [s1 EXCEPT !.found = TRUE]
                    ELSE ScanNeighbours(st, RouteConstraints, source, destination,
                                        current, i + 1, s1)
            ELSE ScanNeighbours(st, RouteConstraints, source, destination,
                                current, i + 1, s)

RECURSIVE SearchLoop(_, _, _, _, _)
SearchLoop(st, RouteConstraints, source, destination, s) ==
    IF s.queue = << >> \/ s.found THEN s
    ELSE SearchLoop(st, RouteConstraints, source, destination,
                    ScanNeighbours(st, RouteConstraints, source, destination,
                                   Head(s.queue), 1,
                                   [s EXCEPT !.queue = Tail(s.queue)]))

\* path[] filled from the destination along Pred, then reversed
RECURSIVE ConstructPath(_, _, _)
ConstructPath(Pred, source, at) ==
    IF at = source THEN << source >>
    ELSE Append(ConstructPath(Pred, source, Pred[at]), at)

_XAie_findShortestPath(st, RouteConstraints, source, destination) ==
    IF source = destination THEN [ok |-> TRUE, path |-> << >>]
    ELSE LET s == SearchLoop(st, RouteConstraints, source, destination,
                             [ queue |-> << source >>, visited |-> {},
                               Pred |-> [t \in Tiles |-> <<0, 0>>],
                               found |-> FALSE ])
         IN IF ~s.found THEN [ok |-> FALSE, path |-> << >>]
            ELSE [ok |-> TRUE, path |-> ConstructPath(s.Pred, source, destination)]

(***************************************************************************)
(* The catalog: per source tile a singly linked list of programmed routes. *)
(* list is the chain of nodes from routesDB on; term is the value of the   *)
(* nextRoute field that ends the chain.  The first node of a list is       *)
(* allocated without setting nextRoute, so that value is indeterminate:    *)
(* "null" ends the list, "garbage" is a wild pointer whose dereference     *)
(* stops the process.                                                      *)
(***************************************************************************)
RouteMatches(routePath, source, destination) ==
    routePath.source = source /\ routePath.destination = destination

_XAie_findRouteInRouteDB(routesDB, source, destination) ==
    IF \E k \in 1 .. Len(routesDB.list) : RouteMatches(routesDB.list[k], source, destination)
    THEN [ kind |-> "found",
           routePath |-> routesDB.list[CHOOSE k \in 1 .. Len(routesDB.list) :
                /\ RouteMatches(routesDB.list[k], source, destination)
                /\ \A j \in 1 .. k - 1 : ~RouteMatches(routesDB.list[j], source, destination)] ]
    ELSE IF routesDB.term = "null" THEN [kind |-> "NULL"]
    ELSE [kind |-> "crash"]

\* _XAie_addRouteInRoutesDB with newNode->nextRoute = NULL instead of *head
_XAie_addRouteInRoutesDB_DropsList(routesDB, routePath) ==
    [list |-> << routePath >>, term |-> "null"]

_XAie_addRouteInRoutesDB(routesDB, routePath) ==
    [routesDB EXCEPT !.list = << routePath >> \o routesDB.list]

\* the branch of _XAie_performRoutingOnPath taken when routesDB == NULL
AddFirstRoute(routePath, term) == [list |-> << routePath >>, term |-> term]

\* _XAie_FreeRouteFromRoutesDB unlinking the head of the list whatever its pair
_XAie_FreeRouteFromRoutesDB_Head(routesDB, source, destination) ==
    [routesDB EXCEPT !.list = SubSeq(routesDB.list, 2, Len(routesDB.list))]

_XAie_FreeRouteFromRoutesDB(routesDB, source, destination) ==
    LET k == CHOOSE k \in 1 .. Len(routesDB.list) :
                /\ RouteMatches(routesDB.list[k], source, destination)
                /\ \A j \in 1 .. k - 1 : ~RouteMatches(routesDB.list[j], source, destination)
    IN [routesDB EXCEPT !.list = SubSeq(routesDB.list, 1, k - 1)
                                  \o SubSeq(routesDB.list, k + 1, Len(routesDB.list))]

(***************************************************************************)
(* The path programmer.  The backend calls of one public call are numbered *)
(* 1, 2, ... in the order they are issued; call number failAt returns an   *)
(* error (failAt = 0: none does).                                          *)
(***************************************************************************)
BackendFails(calls, failAt) == calls + 1 = failAt

NewStep(tile, portSource, sourceStream, portDest, destStream) ==
    [ sourceTile |-> tile, sourceStream |-> sourceStream, destStream |-> destStream,
      source_direction |-> portSource, dest_direction |-> portDest ]

\* one call to the backend: its name, the step it is issued for, whether it succeeds
BackendCall(call, step, ok) == [call |-> call, step |-> step, ok |-> ok]

SetAutoConfigured(s, tile) == [s EXCEPT !.cc[tile].isAutoConfigured = TRUE]

\* i == pathLength - 1
ProgramLastTile(a, source, destination, path, failAt, term) ==
    LET LastTile == path[Len(path)]
        dirLast == IF _XAie_isShimTile(a.st, LastTile) THEN "SOUTH" ELSE "DMA"
        destStream == _XAie_findFirstMatchingStream(a.st, LastTile, dirLast, TRUE)
        s1 == SetAutoConfigured(a.st, LastTile)
        s2 == _XAie_updatePortAvailabilityForStrmConn(s1, LastTile, a.lastDir,
                                                      a.lastStream, dirLast, destStream)
        lastStep == NewStep(LastTile, a.lastDir, a.lastStream, dirLast, destStream)
        steps == Append(a.steps, lastStep)
        Enable(ok) == BackendCall("XAie_StrmConnCctEnable", lastStep, ok)
        EnablePort(ok) == BackendCall("XAie_EnableAieToShimDmaStrmPort", lastStep, ok)
        isShim == _XAie_isShimTile(a.st, LastTile)
        s3 == IF isShim
              THEN _XAie_updatePortAvailabilityForAieToShimDma(s2, LastTile, destStream, FALSE)
              ELSE s2
        CurrRoutingPath == [ source |-> source, destination |-> destination,
                             MM2S_portNo |-> a.MM2S_portNo, S2MM_portNo |-> destStream,
                             nextStep |-> steps ]
        db == s3.cc[source].routesDB
        first == db = NullRoutesDB
        s4 == [s3 EXCEPT !.cc[source].routesDB =
                    IF first THEN AddFirstRoute(CurrRoutingPath, term)
                    ELSE _XAie_addRouteInRoutesDB(db, CurrRoutingPath)]
    IN IF destStream = -1 THEN [a EXCEPT !.rc = "XAIE_ERR"]
       ELSE IF BackendFails(a.calls, failAt)
       THEN [a EXCEPT !.rc = "XAIE_ERR", !.st = s1, !.calls = a.calls + 1,
                      !.cct = Append(a.cct, Enable(FALSE))]
       ELSE IF isShim /\ BackendFails(a.calls + 1, failAt)
       THEN [a EXCEPT !.rc = "XAIE_ERR", !.st = s2, !.calls = a.calls + 2,
                      !.cct = a.cct \o << Enable(TRUE), EnablePort(FALSE) >>]
       ELSE [a EXCEPT !.rc = "XAIE_OK", !.st = s4, !.steps = steps,
                      !.calls = a.calls + (IF isShim THEN 2 ELSE 1),
                      !.cct = a.cct \o (IF isShim THEN << Enable(TRUE), EnablePort(TRUE) >>
                                        ELSE << Enable(TRUE) >>),
                      !.createdFirst = first]

\* ProgramHop with the shim port enabled on every shim tile the path leaves,
\* not on the first tile alone
ProgramHop_EveryShimTile(a, path, i, failAt) ==
    LET SourceTile == path[i + 1]
        DestinationTile == path[i + 2]
        north == DestinationTile[2] > SourceTile[2]
        east == DestinationTile[1] > SourceTile[1]
        dirSource == IF DestinationTile[1] = SourceTile[1]
                     THEN (IF north THEN "NORTH" ELSE "SOUTH")
                     ELSE (IF east THEN "EAST" ELSE "WEST")
        dirDest == IF DestinationTile[1] = SourceTile[1]
                   THEN (IF north THEN "SOUTH" ELSE "NORTH")
                   ELSE (IF east THEN "WEST" ELSE "EAST")
        isShim == _XAie_isShimTile(a.st, SourceTile)
        actualdirSource == IF isShim THEN a.lastDir
                           ELSE (IF i = 0 THEN "DMA" ELSE a.lastDir)
        sourceStream ==
            IF isShim /\ i # 0 THEN a.lastStream
            ELSE _XAie_findFirstMatchingStream(a.st, SourceTile, actualdirSource, FALSE)
        destStream == findFirstMatchingStreamForDestination(a.st, SourceTile,
                                                            DestinationTile, dirSource)
        s1 == SetAutoConfigured(a.st, SourceTile)
        s2 == _XAie_updatePortAvailabilityForStrmConn(s1, SourceTile, actualdirSource,
                                                      sourceStream, dirSource, destStream)
        s3 == _XAie_updatePortAvailabilityForShimDmaToAie(s2, SourceTile, sourceStream, FALSE)
        step == NewStep(SourceTile, actualdirSource, sourceStream, dirSource, destStream)
        Enable(ok) == BackendCall("XAie_StrmConnCctEnable", step, ok)
        EnablePort(ok) == BackendCall("XAie_EnableShimDmaToAieStrmPort", step, ok)
        a2 == [a EXCEPT !.st = s2,
                        !.steps = Append(a.steps, step),
                        !.MM2S_portNo = IF i = 0 THEN sourceStream ELSE a.MM2S_portNo,
                        !.lastDir = dirDest, !.lastStream = destStream,
                        !.calls = a.calls + 1,
                        !.cct = Append(a.cct, Enable(TRUE))]
    IN IF sourceStream = -1 \/ destStream = -1 THEN [a EXCEPT !.rc = "XAIE_ERR"]
       ELSE IF BackendFails(a.calls, failAt)
       THEN [a EXCEPT !.rc = "XAIE_ERR", !.st = s1, !.calls = a.calls + 1,
                      !.cct = Append(a.cct, Enable(FALSE))]
       ELSE IF isShim
       THEN IF BackendFails(a.calls + 1, failAt)
            THEN [a2 EXCEPT !.rc = "XAIE_ERR", !.calls = a.calls + 2,
                            !.cct = a.cct \o << Enable(TRUE), EnablePort(FALSE) >>]
            ELSE [a2 EXCEPT !.st = s3, !.calls = a.calls + 2,
                            !.cct = a.cct \o << Enable(TRUE), EnablePort(TRUE) >>]
       ELSE a2

\* i < pathLength - 1 (i counts from 0 as in the source)
ProgramHop(a, path, i, failAt) ==
    LET SourceTile == path[i + 1]
        DestinationTile == path[i + 2]
        north == DestinationTile[2] > SourceTile[2]
        east == DestinationTile[1] > SourceTile[1]
        dirSource == IF DestinationTile[1] = SourceTile[1]
                     THEN (IF north THEN "NORTH" ELSE "SOUTH")
                     ELSE (IF east THEN "EAST" ELSE "WEST")
        dirDest == IF DestinationTile[1] = SourceTile[1]
                   THEN (IF north THEN "SOUTH" ELSE "NORTH")
                   ELSE (IF east THEN "WEST" ELSE "EAST")
        isShim == _XAie_isShimTile(a.st, SourceTile)
        actualdirSource == IF isShim THEN a.lastDir
                           ELSE (IF i = 0 THEN "DMA" ELSE a.lastDir)
        sourceStream ==
            IF isShim /\ i # 0 THEN a.lastStream
            ELSE _XAie_findFirstMatchingStream(a.st, SourceTile, actualdirSource, FALSE)
        destStream == findFirstMatchingStreamForDestination(a.st, SourceTile,
                                                            DestinationTile, dirSource)
        s1 == SetAutoConfigured(a.st, SourceTile)
        s2 == _XAie_updatePortAvailabilityForStrmConn(s1, SourceTile, actualdirSource,
                                                      sourceStream, dirSource, destStream)
        s3 == _XAie_updatePortAvailabilityForShimDmaToAie(s2, SourceTile, sourceStream, FALSE)
        step == NewStep(SourceTile, actualdirSource, sourceStream, dirSource, destStream)
        Enable(ok) == BackendCall("XAie_StrmConnCctEnable", step, ok)
        EnablePort(ok) == BackendCall("XAie_EnableShimDmaToAieStrmPort", step, ok)
        a2 == [a EXCEPT !.st = s2,
                        !.steps = Append(a.steps, step),
                        !.MM2S_portNo = IF i = 0 THEN sourceStream ELSE a.MM2S_portNo,
                        !.lastDir = dirDest, !.lastStream = destStream,
                        !.calls = a.calls + 1,
                        !.cct = Append(a.cct, Enable(TRUE))]
    IN IF sourceStream = -1 \/ destStream = -1 THEN [a EXCEPT !.rc = "XAIE_ERR"]
       ELSE IF BackendFails(a.calls, failAt)
       THEN [a EXCEPT !.rc = "XAIE_ERR", !.st = s1, !.calls = a.calls + 1,
                      !.cct = Append(a.cct, Enable(FALSE))]
       ELSE IF isShim /\ i = 0
       THEN IF BackendFails(a.calls + 1, failAt)
            THEN [a2 EXCEPT !.rc = "XAIE_ERR", !.calls = a.calls + 2,
                            !.cct = a.cct \o << Enable(TRUE), EnablePort(FALSE) >>]
            ELSE [a2 EXCEPT !.st = s3, !.calls = a.calls + 2,
                            !.cct = a.cct \o << Enable(TRUE), EnablePort(TRUE) >>]
       ELSE a2

RECURSIVE ProgramFrom(_, _, _, _, _, _, _)
ProgramFrom(a, source, destination, path, i, failAt, term) ==
    IF a.rc # "RUN" THEN a
    ELSE IF i >= Len(path) THEN [a EXCEPT !.rc = "XAIE_OK"]
    ELSE IF i = Len(path) - 1
    THEN ProgramFrom(ProgramLastTile(a, source, destination, path, failAt, term),
                     source, destination, path, i + 1, failAt, term)
    ELSE ProgramFrom(ProgramHop(a, path, i, failAt),
                     source, destination, path, i + 1, failAt, term)

\* _XAie_performRoutingOnPath with lastDir starting as NORTH instead of SOUTH
_XAie_performRoutingOnPath_LastDirNorth(s, source, destination, path, failAt, term) ==
    ProgramFrom([ st |-> s, steps |-> << >>, lastDir |-> "NORTH", lastStream |-> -1,
                  MM2S_portNo |-> 255, calls |-> 0, cct |-> << >>, rc |-> "RUN",
                  createdFirst |-> FALSE ],
                source, destination, path, 0, failAt, term)

_XAie_performRoutingOnPath(s, source, destination, path, failAt, term) ==
    ProgramFrom([ st |-> s, steps |-> << >>, lastDir |-> "SOUTH", lastStream |-> -1,
                  MM2S_portNo |-> 255, calls |-> 0, cct |-> << >>, rc |-> "RUN",
                  createdFirst |-> FALSE ],
                source, destination, path, 0, failAt, term)

XAie_SetCoreExecute(s, tile, isExecute) ==
    [s EXCEPT !.cc[tile].isCoreExecuting = isExecute]

SetCoreExecuteIfCore(s, tile) ==
    IF ~_XAie_isShimTile(s, tile) /\ ~_XAie_isMemTile(s, tile)
    THEN XAie_SetCoreExecute(s, tile, TRUE)
    ELSE s

\* XAie_Route without the look-up that refuses a pair the catalog already holds
XAie_Route_NoLookup(s, RouteConstraints, source, destination, failAt, term) ==
    LET Routed(fp, pr) ==
            IF ~fp.ok
            THEN [rc |-> "XAIE_ERR", st |-> s, calls |-> 0, cct |-> << >>,
                  createdFirst |-> FALSE]
            ELSE IF pr.rc # "XAIE_OK"
            THEN [rc |-> "XAIE_ERR", st |-> pr.st, calls |-> pr.calls, cct |-> pr.cct,
                  createdFirst |-> FALSE]
            ELSE [rc |-> "XAIE_OK",
                  st |-> SetCoreExecuteIfCore(SetCoreExecuteIfCore(pr.st, source),
                                              destination),
                  calls |-> pr.calls, cct |-> pr.cct, createdFirst |-> pr.createdFirst]
        PathFound(fp) ==
            Routed(fp, _XAie_performRoutingOnPath(s, source, destination, fp.path,
                                                  failAt, term))
    IN PathFound(_XAie_findShortestPath(s, RouteConstraints, source, destination))

\* the endpoint flags set before the finder has run
XAie_Route_FlagsBeforeFinder(s, RouteConstraints, source, destination, failAt, term) ==
    LET Routed(dup, fp, pr) ==
            IF dup.kind = "crash"
            THEN [rc |-> "CRASH", st |-> s, calls |-> 0, cct |-> << >>,
                  createdFirst |-> FALSE]
            ELSE IF dup.kind = "found"
            THEN [rc |-> "XAIE_ERR", st |-> s, calls |-> 0, cct |-> << >>,
                  createdFirst |-> FALSE]
            ELSE IF ~fp.ok
            THEN [rc |-> "XAIE_ERR", calls |-> 0, cct |-> << >>,
                  st |-> SetCoreExecuteIfCore(SetCoreExecuteIfCore(s, source),
                                              destination),
                  createdFirst |-> FALSE]
            ELSE IF pr.rc # "XAIE_OK"
            THEN [rc |-> "XAIE_ERR", st |-> pr.st, calls |-> pr.calls, cct |-> pr.cct,
                  createdFirst |-> FALSE]
            ELSE [rc |-> "XAIE_OK",
                  st |-> SetCoreExecuteIfCore(SetCoreExecuteIfCore(pr.st, source),
                                              destination),
                  calls |-> pr.calls, cct |-> pr.cct, createdFirst |-> pr.createdFirst]
        PathFound(dup, fp) ==
            Routed(dup, fp, _XAie_performRoutingOnPath(s, source, destination, fp.path,
                                                       failAt, term))
    IN PathFound(_XAie_findRouteInRouteDB(s.cc[source].routesDB, source, destination),
                 _XAie_findShortestPath(s, RouteConstraints, source, destination))

\* the result of one call: return code, table after the call, backend calls
\* issued, whether the first node of a route list was allocated
XAie_Route(s, RouteConstraints, source, destination, failAt, term) ==
    LET Routed(dup, fp, pr) ==
            IF dup.kind = "crash"
            THEN [rc |-> "CRASH", st |-> s, calls |-> 0, cct |-> << >>,
                  createdFirst |-> FALSE]
            ELSE IF dup.kind = "found"
            THEN [rc |-> "XAIE_ERR", st |-> s, calls |-> 0, cct |-> << >>,
                  createdFirst |-> FALSE]
            ELSE IF ~fp.ok
            THEN [rc |-> "XAIE_ERR", st |-> s, calls |-> 0, cct |-> << >>,
                  createdFirst |-> FALSE]
            ELSE IF pr.rc # "XAIE_OK"
            THEN [rc |-> "XAIE_ERR", st |-> pr.st, calls |-> pr.calls, cct |-> pr.cct,
                  createdFirst |-> FALSE]
            ELSE [rc |-> "XAIE_OK",
                  st |-> SetCoreExecuteIfCore(SetCoreExecuteIfCore(pr.st, source),
                                              destination),
                  calls |-> pr.calls, cct |-> pr.cct, createdFirst |-> pr.createdFirst]
        PathFound(dup, fp) ==
            Routed(dup, fp, _XAie_performRoutingOnPath(s, source, destination, fp.path,
                                                       failAt, term))
    IN PathFound(_XAie_findRouteInRouteDB(s.cc[source].routesDB, source, destination),
                 _XAie_findShortestPath(s, RouteConstraints, source, destination))

(***************************************************************************)
(* Teardown.                                                               *)
(***************************************************************************)
\* the flag cleared without looking at ShouldModifyCoreConfig
ClearCoreExecuteIfCore_Always(s, tile, ShouldModifyCoreConfig) ==
    IF ~_XAie_isShimTile(s, tile) /\ ~_XAie_isMemTile(s, tile)
    THEN XAie_SetCoreExecute(s, tile, FALSE)
    ELSE s

ClearCoreExecuteIfCore(s, tile, ShouldModifyCoreConfig) ==
    IF ShouldModifyCoreConfig /\ ~_XAie_isShimTile(s, tile) /\ ~_XAie_isMemTile(s, tile)
    THEN XAie_SetCoreExecute(s, tile, FALSE)
    ELSE s

\* one iteration of the while loop over the steps of the route
DisableStep(a, routingPath, k, failAt) ==
    LET currentStep == routingPath.nextStep[k]
        s1 == _XAie_updatePortAvailabilityForStrmConnInverse(a.st,
                    currentStep.sourceTile,
                    currentStep.source_direction, currentStep.sourceStream,
                    currentStep.dest_direction, currentStep.destStream)
        s2 == IF ~_XAie_isShimTile(a.st, routingPath.source) THEN s1
              ELSE IF k = 1
              THEN _XAie_updatePortAvailabilityForShimDmaToAie(s1,
                        currentStep.sourceTile, currentStep.sourceStream, TRUE)
              ELSE _XAie_updatePortAvailabilityForAieToShimDma(s1,
                        currentStep.sourceTile, currentStep.sourceStream, TRUE)
        Disable(ok) == BackendCall("XAie_StrmConnCctDisable", currentStep, ok)
    IN IF BackendFails(a.calls, failAt)
       THEN [a EXCEPT !.rc = "XAIE_ERR", !.calls = a.calls + 1,
                      !.cct = Append(a.cct, Disable(FALSE))]
       ELSE [a EXCEPT !.st = s2, !.calls = a.calls + 1,
                      !.cct = Append(a.cct, Disable(TRUE))]

RECURSIVE DisableFrom(_, _, _, _)
DisableFrom(a, routingPath, k, failAt) ==
    IF a.rc # "RUN" \/ k > Len(routingPath.nextStep) THEN a
    ELSE DisableFrom(DisableStep(a, routingPath, k, failAt), routingPath, k + 1, failAt)

XAie_DeRoute(s, source, destination, ShouldModifyCoreConfig, failAt) ==
    LET db == s.cc[source].routesDB
        Disabled(s1, f, a) ==
            IF db = NullRoutesDB
            THEN [rc |-> "XAIE_ERR", st |-> s, calls |-> 0, cct |-> << >>]
            \* a wild list pointer, or routingPath == NULL dereferenced for its steps
            ELSE IF f.kind # "found"
            THEN [rc |-> "CRASH", st |-> s1, calls |-> 0, cct |-> << >>]
            ELSE IF a.rc = "XAIE_ERR"
            THEN [rc |-> "XAIE_ERR", st |-> a.st, calls |-> a.calls, cct |-> a.cct]
            ELSE [rc |-> "XAIE_OK", calls |-> a.calls, cct |-> a.cct,
                  st |-> [a.st EXCEPT !.cc[source].routesDB =
                             _XAie_FreeRouteFromRoutesDB(a.st.cc[source].routesDB,
                                                         source, destination)]]
        Looked(s1, f) ==
            Disabled(s1, f,
                     DisableFrom([st |-> s1, calls |-> 0, cct |-> << >>, rc |-> "RUN"],
                                 f.routePath, 1, failAt))
    IN Looked(ClearCoreExecuteIfCore(
                ClearCoreExecuteIfCore(s, source, ShouldModifyCoreConfig),
                destination, ShouldModifyCoreConfig),
              _XAie_findRouteInRouteDB(db, source, destination))

(***************************************************************************)
(* XAie_ResetHostEdgeConstraints: every shim tile loses both its mappings. *)
(***************************************************************************)
XAie_ResetHostEdgeConstraints(s) ==
    [s EXCEPT !.cc = [t \in Tiles |->
        IF t[2] = 0
        THEN [s.cc[t] EXCEPT !.Host2AIEPorts = "NULL", !.Host2AIEPortCount = 0,
                             !.AIE2HostPorts = "NULL", !.AIE2HostPortCount = 0]
        ELSE s.cc[t]]]

(***************************************************************************)
(* XAie_RoutingSwitchReset.                                                *)
(***************************************************************************)
ResetDirections == << "DMA", "SOUTH", "WEST", "NORTH", "EAST" >>

ResetPortBits == 8

\* the bit field the switch statements pick for a direction
slavePortBitfield(tileConstraint, slaveDir) ==
    IF slaveDir = "DMA" THEN tileConstraint.ShimMM2S_State
    ELSE tileConstraint[SlaveField(slaveDir)]

masterPortBitfield(tileConstraint, masterDir) ==
    IF masterDir = "DMA" THEN tileConstraint.ShimS2MM_State
    ELSE tileConstraint[MasterField(masterDir)]

\* the n-th combination of the four nested loops, n counted from 0
ResetCombination(tile, n) ==
    NewStep(tile,
            ResetDirections[(n \div (Len(ResetDirections) * ResetPortBits * ResetPortBits)) + 1],
            (n \div ResetPortBits) % ResetPortBits,
            ResetDirections[((n \div (ResetPortBits * ResetPortBits)) % Len(ResetDirections)) + 1],
            n % ResetPortBits)

\* the calls of a tile with the test of isAutoConfigured left out
ResetCallsOfTile_NoSkip(s, currentTile) ==
    LET tileConstraint == s.cc[currentTile]
        count == Len(ResetDirections) * Len(ResetDirections) * ResetPortBits * ResetPortBits
        all == [n \in 1 .. count |-> ResetCombination(currentTile, n - 1)]
        Issued(c) == /\ BitSet(slavePortBitfield(tileConstraint, c.source_direction),
                               c.sourceStream)
                     /\ BitSet(masterPortBitfield(tileConstraint, c.dest_direction),
                               c.destStream)
    IN SelectSeq(all, Issued)

\* the connections XAie_SStrmConnCctDisable is called for on one tile, in order
ResetCallsOfTile(s, currentTile) ==
    LET tileConstraint == s.cc[currentTile]
        count == Len(ResetDirections) * Len(ResetDirections) * ResetPortBits * ResetPortBits
        all == [n \in 1 .. count |-> ResetCombination(currentTile, n - 1)]
        Issued(c) == /\ BitSet(slavePortBitfield(tileConstraint, c.source_direction),
                               c.sourceStream)
                     /\ BitSet(masterPortBitfield(tileConstraint, c.dest_direction),
                               c.destStream)
    IN IF tileConstraint.isAutoConfigured THEN << >> ELSE SelectSeq(all, Issued)

RECURSIVE ResetCallsOfTiles(_, _, _)
ResetCallsOfTiles(s, listOfTiles, i) ==
    IF i > Len(listOfTiles) THEN << >>
    ELSE ResetCallsOfTile(s, listOfTiles[i]) \o ResetCallsOfTiles(s, listOfTiles, i + 1)

\* the table is only read; the call stops at the first disable that fails
XAie_RoutingSwitchReset(s, listOfTiles, failAt) ==
    LET all == ResetCallsOfTiles(s, listOfTiles, 1)
        fails == failAt >= 1 /\ failAt <= Len(all)
        issued == IF fails THEN SubSeq(all, 1, failAt) ELSE all
    IN [ rc |-> IF fails THEN "XAIE_ERR" ELSE "XAIE_OK",
         st |-> s,
         calls |-> Len(all),
         cct |-> [k \in 1 .. Len(issued) |->
                    BackendCall("XAie_SStrmConnCctDisable", issued[k],
                                ~(fails /\ k = failAt))] ]

\* XAie_RoutesReveal: the look-up, then a '*' in Grid for the tile of every step
XAie_RoutesReveal(s, source, destination) ==
    LET f == _XAie_findRouteInRouteDB(s.cc[source].routesDB, source, destination)
    IN IF f.kind = "crash" THEN [rc |-> "CRASH", Grid |-> {}]
       ELSE IF f.kind = "NULL" THEN [rc |-> "XAIE_ERR", Grid |-> {}]
       ELSE [rc |-> "XAIE_OK",
             Grid |-> { f.routePath.nextStep[k].sourceTile :
                            k \in 1 .. Len(f.routePath.nextStep) }]

(***************************************************************************)
(* Buffer descriptors and the data mover.                                  *)
(***************************************************************************)
MAX_BUFFER_IDS_FIND == 48
MAX_BUFFER_IDS_RESET == 16
IntBits == 31

\* scans bufferID = 0 .. 47 with the int expression (1 << bufferID).  Up to
\* bit 30 that is the single bit.  From bufferID = 31 on the shift is
\* undefined; the builds differ in what is left of it:
\*   wide = FALSE  the shift is made in 32 bits: 1 << 31 converts to the mask
\*                 of bits 31 .. 63, so slot 31 is handed out and every higher
\*                 bit is cleared with it; the shifts by 32 .. 47 wrap to the
\*                 low bits, which are clear by then
\*   wide = TRUE   the shift is made in 64 bits: the single bit
_XAie_findAvailableBufferID(s, tile, wide) ==
    LET bd == s.cc[tile].BDState
        low == {b \in 0 .. MAX_BUFFER_IDS_FIND - 1 : b < IntBits /\ b \in bd}
        high == {b \in 0 .. MAX_BUFFER_IDS_FIND - 1 : b >= IntBits /\ b \in bd}
        first == CHOOSE b \in low : \A c \in low : b <= c
        firstHigh == CHOOSE b \in high : \A c \in high : b <= c
        Without(slots) == [s EXCEPT !.cc[tile].BDState = {b : b \in bd \ slots}]
    IN IF low # {} THEN [id |-> first, st |-> Without({first})]
       ELSE IF high = {} THEN [id |-> -1, st |-> s]
       ELSE IF wide THEN [id |-> firstHigh, st |-> Without({firstHigh})]
       ELSE [id |-> IntBits, st |-> Without(high)]

_XAie_resetBDAvailability(s, tile, bdID) ==
    IF bdID % 256 < MAX_BUFFER_IDS_RESET
    THEN [s EXCEPT !.cc[tile].BDState = {b : b \in s.cc[tile].BDState \cup {bdID % 256}}]
    ELSE s

\* the backend operations of XAie_MoveData, in the order the call issues them
WriteBdOps == << "XAie_DmaWriteBd(source)", "XAie_DmaWriteBd(destination)" >>

SourceChannelOps ==
    << "XAie_DmaChannelPushBdToQueue(source)", "XAie_DmaChannelEnable(source)" >>

DestinationChannelOps ==
    << "XAie_DmaChannelPushBdToQueue(destination)", "XAie_DmaChannelEnable(destination)" >>

PendingRead == "XAie_DmaGetPendingBdCount(destination)"

\* XAie_MoveData with the destination channel started before the source channel
XAie_MoveDataStart_DestinationFirst(s, source, destination, failAt, wide) ==
    LET sb == _XAie_findAvailableBufferID(s, source, wide)
        db == _XAie_findAvailableBufferID(sb.st, destination, wide)
        f == _XAie_findRouteInRouteDB(db.st.cc[source].routesDB, source, destination)
        BDs == [sourceBD |-> sb.id, destinationBD |-> db.id]
        R(rc, t, calls, ops) ==
            [rc |-> rc, st |-> t, BDs |-> BDs, calls |-> calls, ops |-> ops]
    IN IF failAt = 1 \/ sb.id = -1 THEN R("XAIE_ERR", sb.st, 1, SubSeq(WriteBdOps, 1, 1))
       ELSE IF failAt = 2 \/ db.id = -1 THEN R("XAIE_ERR", db.st, 2, WriteBdOps)
       ELSE IF f.kind = "crash" THEN R("CRASH", db.st, 2, WriteBdOps)
       ELSE IF f.kind = "NULL" THEN R("XAIE_ERR", db.st, 2, WriteBdOps)
       ELSE IF failAt = 3
       THEN R("XAIE_ERR", db.st, 3, WriteBdOps \o DestinationChannelOps)
       ELSE IF failAt = 4
       THEN R("XAIE_ERR", db.st, 4, WriteBdOps \o DestinationChannelOps \o SourceChannelOps)
       ELSE R("POLL", db.st, 4, WriteBdOps \o DestinationChannelOps \o SourceChannelOps)

\* XAie_MoveData up to the polling loop.  failAt: 1 programming of the source
\* descriptor, 2 of the destination descriptor, 3 source push/enable,
\* 4 destination push/enable; calls is the last of these the call got to.
\* Writing a descriptor with no free slot (-1) is refused by the backend.
XAie_MoveDataStart(s, source, destination, failAt, wide) ==
    LET sb == _XAie_findAvailableBufferID(s, source, wide)
        db == _XAie_findAvailableBufferID(sb.st, destination, wide)
        f == _XAie_findRouteInRouteDB(db.st.cc[source].routesDB, source, destination)
        BDs == [sourceBD |-> sb.id, destinationBD |-> db.id]
        R(rc, t, calls, ops) ==
            [rc |-> rc, st |-> t, BDs |-> BDs, calls |-> calls, ops |-> ops]
    IN IF failAt = 1 \/ sb.id = -1 THEN R("XAIE_ERR", sb.st, 1, SubSeq(WriteBdOps, 1, 1))
       ELSE IF failAt = 2 \/ db.id = -1 THEN R("XAIE_ERR", db.st, 2, WriteBdOps)
       ELSE IF f.kind = "crash" THEN R("CRASH", db.st, 2, WriteBdOps)
       ELSE IF f.kind = "NULL" THEN R("XAIE_ERR", db.st, 2, WriteBdOps)
       ELSE IF failAt = 3
       THEN R("XAIE_ERR", db.st, 3, WriteBdOps \o SourceChannelOps)
       ELSE IF failAt = 4
       THEN R("XAIE_ERR", db.st, 4, WriteBdOps \o SourceChannelOps \o DestinationChannelOps)
       ELSE R("POLL", db.st, 4, WriteBdOps \o SourceChannelOps \o DestinationChannelOps)

\* after the polling loop
XAie_MoveDataFinish(s, source, destination, BDs, RC) ==
    IF RC # "XAIE_OK" THEN [rc |-> "XAIE_ERR", st |-> s]
    ELSE [rc |-> "XAIE_OK",
          st |-> _XAie_resetBDAvailability(
                    _XAie_resetBDAvailability(s, destination, BDs.destinationBD),
                    source, BDs.sourceBD)]

\* XAie_RouteDmaWait up to its polling loop
XAie_RouteDmaWaitStart(s, sourcetile, tile) ==
    LET f == _XAie_findRouteInRouteDB(s.cc[sourcetile].routesDB, sourcetile, tile)
    IN IF f.kind = "crash" THEN [rc |-> "CRASH", st |-> s, destPendingBDCount |-> -1]
       ELSE IF f.kind = "NULL" THEN [rc |-> "XAIE_ERR", st |-> s, destPendingBDCount |-> -1]
       ELSE [rc |-> "POLL", st |-> s, destPendingBDCount |-> 5]

\* after the polling loop: the return values of the reads are not looked at
XAie_RouteDmaWaitFinish(s) == [rc |-> "XAIE_OK", st |-> s]

(***************************************************************************)
(* Inputs of the calls.                                                    *)
(***************************************************************************)
SmallSets == {X \in SUBSET Tiles : Cardinality(X) <= MaxListed}

\* no constraints, or a blacklist of at most MaxListed tiles
BlackListInputs == {[BlackListedCores |-> B, WhiteListedCores |-> {}] : B \in SmallSets}

\* a whitelist leaving out at most MaxListed tiles
WhiteListInputs ==
    {[BlackListedCores |-> {}, WhiteListedCores |-> Tiles \ X] : X \in SmallSets \ {{}}}

ConstraintInputs == BlackListInputs \cup WhiteListInputs

(***************************************************************************)
(* The masks of a table: what "byte for byte" equality of two tables       *)
(* compares.                                                               *)
(***************************************************************************)
MaskFields ==
    { "SlaveEast", "SlaveWest", "SlaveSouth", "SlaveNorth",
      "MasterEast", "MasterWest", "MasterSouth", "MasterNorth",
      "MM2S_State", "S2MM_State", "BDState" }

Masks(s) == [t \in Tiles |-> [f \in MaskFields |-> s.cc[t][f]]]

(***************************************************************************)
(* The state machine: one action per public call.                          *)
(*   st      the routing instance (table, shim mappings, catalog)         *)
(*   last    the last call made: arguments and return code                 *)
(*   pre     the routing instance as it was when that call was made        *)
(*   snap    after a successful XAie_Route, and after the call that        *)
(*           follows it: the endpoints of that XAie_Route and the masks    *)
(*           and shim mappings as they were before it                      *)
(*   ncalls  number of calls made                                          *)
(*   poll    the XAie_MoveData or XAie_RouteDmaWait call blocked in its    *)
(*           polling loop, if any                                          *)
(*   enabled the stream-switch connections enabled on the backend and not  *)
(*           disabled since, each written as the step it was enabled for   *)
(***************************************************************************)
VARIABLES st, last, pre, snap, ncalls, poll, enabled

vars == << st, last, pre, snap, ncalls, poll, enabled >>

\* the backend calls issued by a call, in order (none for the data mover's)
Cct(r) == IF "cct" \in DOMAIN r THEN r.cct ELSE << >>

Enables == { "XAie_StrmConnCctEnable" }

Disables == { "XAie_StrmConnCctDisable", "XAie_SStrmConnCctDisable" }

\* the connections enabled after the first n of the backend calls cct: those
\* whose last successful enable or disable among them is an enable, and those
\* of conns that none of them touches
StrmSwAfter(conns, cct, n) ==
    LET Touching(c) == { k \in 1 .. n : /\ cct[k].ok
                                        /\ cct[k].step = c
                                        /\ cct[k].call \in Enables \cup Disables }
        Last(c) == CHOOSE k \in Touching(c) : \A j \in Touching(c) : j <= k
        enabledByCct == { cct[k].step : k \in { j \in 1 .. n : cct[j].call \in Enables } }
    IN { c \in conns \cup enabledByCct :
           IF Touching(c) = {} THEN c \in conns ELSE cct[Last(c)].call \in Enables }

NoCall ==
    [ op |-> "none", source |-> <<0, 0>>, destination |-> <<0, 0>>, rc |-> "none",
      RouteConstraints |-> NoConstraints, flag |-> FALSE, failAt |-> 0,
      ops |-> << >>, cct |-> << >>, destPendingBDCount |-> -1, listOfTiles |-> << >> ]

NoPoll == [ active |-> FALSE, BDs |-> [sourceBD |-> -1, destinationBD |-> -1],
            RC |-> "XAIE_OK" ]

NoSnap == [ taken |-> FALSE, source |-> <<0, 0>>, destination |-> <<0, 0>>,
            masks |-> << >>, h2a |-> << >>, a2h |-> << >> ]

Init ==
    /\ st = XAie_InitRoutingHandler
    /\ last = NoCall
    /\ pre = XAie_InitRoutingHandler
    /\ snap = NoSnap
    /\ ncalls = 0
    /\ poll = NoPoll
    /\ enabled = {}

CanCall == ncalls < MaxCalls /\ ~poll.active /\ last.rc # "CRASH"

RouteReturnedOk == last.op = "XAie_Route" /\ last.rc = "XAIE_OK"

Returned(call, r) ==
    /\ st' = r.st
    /\ last' = [call EXCEPT !.rc = r.rc, !.cct = Cct(r)]
    /\ enabled' = StrmSwAfter(enabled, Cct(r), Len(Cct(r)))
    /\ pre' = st
    /\ snap' = IF call.op = "XAie_Route" /\ r.rc = "XAIE_OK"
               THEN [taken |-> TRUE, source |-> call.source,
                     destination |-> call.destination, masks |-> Masks(st),
                     h2a |-> st.h2a, a2h |-> st.a2h]
               ELSE IF RouteReturnedOk THEN snap
               ELSE NoSnap
    /\ ncalls' = ncalls + 1

Route(CS) ==
    /\ CanCall
    /\ \E source \in Tiles, destination \in Tiles, RouteConstraints \in CS :
         LET Called(r0) ==
               \E failAt \in 0 .. r0.calls,
                  term \in (IF r0.createdFirst THEN {"null", "garbage"} ELSE {"null"}) :
                 /\ failAt # 0 => term = "null"
                 /\ Returned([NoCall EXCEPT !.op = "XAie_Route", !.source = source,
                                     !.destination = destination,
                                     !.RouteConstraints = RouteConstraints,
                                     !.failAt = failAt],
                             IF failAt = 0 /\ term = "null" THEN r0
                             ELSE XAie_Route(st, RouteConstraints, source, destination,
                                             failAt, term))
         IN Called(XAie_Route(st, RouteConstraints, source, destination, 0, "null"))
    /\ UNCHANGED poll

DeRoute ==
    /\ CanCall
    /\ \E source \in Tiles, destination \in Tiles, ShouldModifyCoreConfig \in BOOLEAN :
         LET Called(r0) ==
               \E failAt \in 0 .. r0.calls :
                 Returned([NoCall EXCEPT !.op = "XAie_DeRoute", !.source = source,
                                  !.destination = destination,
                                  !.flag = ShouldModifyCoreConfig, !.failAt = failAt],
                          IF failAt = 0 THEN r0
                          ELSE XAie_DeRoute(st, source, destination,
                                            ShouldModifyCoreConfig, failAt))
         IN Called(XAie_DeRoute(st, source, destination, ShouldModifyCoreConfig, 0))
    /\ UNCHANGED poll

MoveData ==
    /\ CanCall
    /\ \E source \in Tiles, destination \in Tiles, wide \in BOOLEAN :
         LET Started(r, failAt) ==
               LET call == [NoCall EXCEPT !.op = "XAie_MoveData", !.source = source,
                                          !.destination = destination,
                                          !.failAt = failAt, !.ops = r.ops]
               IN IF r.rc = "POLL"
                  THEN /\ Returned([call EXCEPT !.destPendingBDCount = 1],
                                   [rc |-> "PENDING", st |-> r.st])
                       /\ poll' = [active |-> TRUE, BDs |-> r.BDs, RC |-> "XAIE_OK"]
                  ELSE /\ Returned(call, r)
                       /\ UNCHANGED poll
             Called(r0) ==
               \E failAt \in 0 .. r0.calls :
                 Started(IF failAt = 0 THEN r0
                         ELSE XAie_MoveDataStart(st, source, destination, failAt, wide),
                         failAt)
         IN Called(XAie_MoveDataStart(st, source, destination, 0, wide))

\* the first read of the pending count is entered in the operations of the call
ReadIssued(ops) ==
    IF Len(ops) > 0 /\ ops[Len(ops)] = PendingRead THEN ops ELSE Append(ops, PendingRead)

\* lists of at most MaxResetTiles tiles
ResetLists == UNION { [1 .. n -> Tiles] : n \in 0 .. MaxResetTiles }

Min(a, b) == IF a < b THEN a ELSE b

RoutingSwitchReset ==
    /\ CanCall
    /\ \E listOfTiles \in ResetLists :
         LET Called(r0) ==
               \E failAt \in 0 .. Min(r0.calls, MaxResetFailAt) :
                 Returned([NoCall EXCEPT !.op = "XAie_RoutingSwitchReset",
                                         !.listOfTiles = listOfTiles, !.failAt = failAt],
                          IF failAt = 0 THEN r0
                          ELSE XAie_RoutingSwitchReset(st, listOfTiles, failAt))
         IN Called(XAie_RoutingSwitchReset(st, listOfTiles, 0))
    /\ UNCHANGED poll

ResetHostEdgeConstraints ==
    /\ CanCall
    /\ Returned([NoCall EXCEPT !.op = "XAie_ResetHostEdgeConstraints"],
                [rc |-> "XAIE_OK", st |-> XAie_ResetHostEdgeConstraints(st)])
    /\ UNCHANGED poll

\* XAie_RouteDmaWait up to its polling loop
RouteDmaWait ==
    /\ CanCall
    /\ \E sourcetile \in Tiles, tile \in Tiles :
         LET Started(r) ==
               LET call == [NoCall EXCEPT !.op = "XAie_RouteDmaWait",
                                          !.source = sourcetile, !.destination = tile,
                                          !.destPendingBDCount = r.destPendingBDCount]
               IN IF r.rc = "POLL"
                  THEN /\ Returned(call, [rc |-> "PENDING", st |-> r.st])
                       /\ poll' = [NoPoll EXCEPT !.active = TRUE]
                  ELSE /\ Returned(call, r)
                       /\ UNCHANGED poll
         IN Started(XAie_RouteDmaWaitStart(st, sourcetile, tile))

\* XAie_DmaGetPendingBdCount reports a non-zero count: the loop goes round
PollPending ==
    /\ poll.active
    /\ last' = [last EXCEPT !.ops = ReadIssued(last.ops), !.destPendingBDCount = 1]
    /\ UNCHANGED << st, pre, snap, ncalls, poll, enabled >>

\* the read fails and the loop is left with the count still non-zero
PollError_LeavesLoop ==
    /\ poll.active
    /\ poll' = NoPoll
    /\ last' = [last EXCEPT !.rc = "XAIE_ERR", !.ops = ReadIssued(last.ops)]
    /\ UNCHANGED << st, pre, snap, ncalls, enabled >>

\* the read fails: the count keeps its value and the loop goes round;
\* XAie_MoveData records the failure in RC, XAie_RouteDmaWait drops it
PollError ==
    /\ poll.active
    /\ poll' = IF last.op = "XAie_MoveData" THEN [poll EXCEPT !.RC = "XAIE_ERR"] ELSE poll
    /\ last' = [last EXCEPT !.ops = ReadIssued(last.ops)]
    /\ UNCHANGED << st, pre, snap, ncalls, enabled >>

\* the read reports zero: the loop ends and the call returns
PollDone ==
    /\ poll.active
    /\ LET Finished(r) ==
              /\ st' = r.st
              /\ last' = [last EXCEPT !.rc = r.rc, !.ops = ReadIssued(last.ops),
                                      !.destPendingBDCount = 0]
       IN Finished(IF last.op = "XAie_MoveData"
                   THEN XAie_MoveDataFinish(st, last.source, last.destination,
                                            poll.BDs, poll.RC)
                   ELSE XAie_RouteDmaWaitFinish(st))
    /\ poll' = NoPoll
    /\ UNCHANGED << pre, snap, ncalls, enabled >>

RoutePlain == Route({NoConstraints})

RouteConstrained == Route(ConstraintInputs)

Next ==
    \/ RoutePlain
    \/ DeRoute
    \/ MoveData
    \/ RouteDmaWait
    \/ PollPending
    \/ PollError
    \/ PollDone

Spec == Init /\ [][Next]_vars

(***************************************************************************)
(* A second specification: the calls are made on an instance that already  *)
(* carries routes.  Its initial states are the instances reached from      *)
(* XAie_InitRoutingHandler by the first k calls of WarmScript, each a      *)
(* successful XAie_Route; MaxWarmCalls further calls are then made, the    *)
(* XAie_Route ones with black lists and white lists, and                   *)
(* XAie_RoutingSwitchReset among them.                                     *)
(***************************************************************************)
WarmScript ==
    << << <<1, 2>>, <<0, 2>> >>, << <<1, 2>>, <<0, 1>> >>,
       << <<1, 1>>, <<0, 2>> >>, << <<1, 1>>, <<0, 1>> >> >>

RECURSIVE WarmState(_)
WarmState(k) ==
    IF k = 0 THEN XAie_InitRoutingHandler
    ELSE XAie_Route(WarmState(k - 1), NoConstraints,
                    WarmScript[k][1], WarmScript[k][2], 0, "null").st

\* the connections enabled by the first k calls of WarmScript
RECURSIVE WarmStrmSw(_)
WarmStrmSw(k) ==
    IF k = 0 THEN {}
    ELSE LET r == XAie_Route(WarmState(k - 1), NoConstraints,
                             WarmScript[k][1], WarmScript[k][2], 0, "null")
         IN StrmSwAfter(WarmStrmSw(k - 1), r.cct, Len(r.cct))

InitWarm ==
    /\ \E k \in 0 .. Len(WarmScript) : st = WarmState(k) /\ enabled = WarmStrmSw(k)
    /\ last = NoCall
    /\ pre = st
    /\ snap = NoSnap
    /\ ncalls = MaxCalls - MaxWarmCalls
    /\ poll = NoPoll

NextWarm ==
    \/ RouteConstrained
    \/ DeRoute
    \/ MoveData
    \/ RouteDmaWait
    \/ RoutingSwitchReset
    \/ PollPending
    \/ PollError
    \/ PollDone

SpecWarm == InitWarm /\ [][NextWarm]_vars

(***************************************************************************)
(* A third family of starting instances: routes that end on shim tiles, a  *)
(* route and its reverse, two routes into the same shim tile.  The initial *)
(* states are the instances reached from XAie_InitRoutingHandler by the    *)
(* first k calls of ShimScript, each a successful XAie_Route;              *)
(* MaxWarmCalls further calls are then made.                               *)
(***************************************************************************)
ShimScript ==
    << << <<0, 2>>, <<0, 0>> >>, << <<0, 0>>, <<0, 2>> >>,
       << <<1, 2>>, <<0, 0>> >>, << <<0, 0>>, <<1, 1>> >> >>

\* the instance and the enabled connections after the first k calls of ShimScript
RECURSIVE ShimRun(_)
ShimRun(k) ==
    IF k = 0 THEN [st |-> XAie_InitRoutingHandler, enabled |-> {}]
    ELSE LET b == ShimRun(k - 1)
             r == XAie_Route(b.st, NoConstraints, ShimScript[k][1], ShimScript[k][2],
                             0, "null")
         IN [st |-> r.st, enabled |-> StrmSwAfter(b.enabled, r.cct, Len(r.cct))]

InitShim ==
    /\ \E k \in 0 .. Len(ShimScript) : st = ShimRun(k).st /\ enabled = ShimRun(k).enabled
    /\ last = NoCall
    /\ pre = st
    /\ snap = NoSnap
    /\ ncalls = MaxCalls - MaxWarmCalls
    /\ poll = NoPoll

SpecShim == InitShim /\ [][NextWarm]_vars

(***************************************************************************)
(* A fourth family of starting instances, for the shim mappings and the    *)
(* DMA channels: a route out of a shim tile, programmed and removed again, *)
(* then a route out of an AIE tile.  The initial states are the instances  *)
(* reached from XAie_InitRoutingHandler by the first k calls of            *)
(* HostScript; MaxCalls further calls are then made, among them            *)
(* XAie_ResetHostEdgeConstraints.                                          *)
(***************************************************************************)
HostScript ==
    << [op |-> "XAie_Route", source |-> <<0, 0>>, destination |-> <<0, 2>>],
       [op |-> "XAie_DeRoute", source |-> <<0, 0>>, destination |-> <<0, 2>>],
       [op |-> "XAie_Route", source |-> <<0, 2>>, destination |-> <<0, 1>>] >>

HostCall(s, c) ==
    IF c.op = "XAie_Route"
    THEN XAie_Route(s, NoConstraints, c.source, c.destination, 0, "null")
    ELSE XAie_DeRoute(s, c.source, c.destination, FALSE, 0)

\* the instance and the enabled connections after the first k calls of HostScript
RECURSIVE HostRun(_)
HostRun(k) ==
    IF k = 0 THEN [st |-> XAie_InitRoutingHandler, enabled |-> {}]
    ELSE LET After(b, r) ==
                 [st |-> r.st, enabled |-> StrmSwAfter(b.enabled, r.cct, Len(r.cct))]
             Before(b) == After(b, HostCall(b.st, HostScript[k]))
         IN Before(HostRun(k - 1))

InitHost ==
    /\ \E k \in 0 .. Len(HostScript) :
         LET Started(b) == st = b.st /\ enabled = b.enabled
         IN Started(HostRun(k))
    /\ last = NoCall
    /\ pre = st
    /\ snap = NoSnap
    /\ ncalls = 0
    /\ poll = NoPoll

NextHost ==
    \/ RoutePlain
    \/ DeRoute
    \/ ResetHostEdgeConstraints

SpecHost == InitHost /\ [][NextHost]_vars

(***************************************************************************)
(* The polling loops under fair hardware.  Both loops read the pending-BD  *)
(* count again on every turn and do nothing else, so a read is always      *)
(* about to happen while a call polls; the hardware that drains the S2MM   *)
(* queue makes one of these reads report zero: PollDone, enabled as long   *)
(* as the call polls, is eventually taken.                                 *)
(***************************************************************************)
SpecPoll == InitWarm /\ [][NextWarm]_vars /\ WF_vars(PollDone)

(***************************************************************************)
(* Properties.                                                             *)
(***************************************************************************)
Catalog(s) == [t \in Tiles |-> s.cc[t].routesDB]

RouteReturned(rc) == last.op = "XAie_Route" /\ last.rc = rc

DeRouteReturned(rc) == last.op = "XAie_DeRoute" /\ last.rc = rc

\* C1: when XAie_Route returns an error, the masks of every tile (ports,
\* MM2S/S2MM, buffer descriptors), the availability flags of the shim
\* mappings and the catalog are what they were when the call was made.
C1_RouteErrorRollsBack ==
    RouteReturned("XAIE_ERR") =>
        /\ Masks(st) = Masks(pre)
        /\ st.h2a = pre.h2a /\ st.a2h = pre.a2h
        /\ Catalog(st) = Catalog(pre)

\* C2: a successful XAie_Route(src, dst), src # dst, followed at once by a
\* successful XAie_DeRoute(src, dst) leaves every port mask, MM2S/S2MM mask
\* and buffer-descriptor mask as it was before the XAie_Route.
C2_RouteDeRouteRestoresMasks ==
    ( /\ DeRouteReturned("XAIE_OK")
      /\ snap.taken
      /\ snap.source = last.source /\ snap.destination = last.destination
      /\ last.source # last.destination )
    => Masks(st) = snap.masks

(***************************************************************************)
(* Valid paths, as the finder's contract states them: consecutive tiles    *)
(* are grid neighbours, every tile is admitted by the constraints, and     *)
(* every hop has an index free both in the master mask of the tile it      *)
(* leaves (towards the next tile) and in the slave mask of the tile it     *)
(* enters (facing back).                                                   *)
(***************************************************************************)
Directions == { "NORTH", "SOUTH", "EAST", "WEST" }

Opposite(d) ==
    CASE d = "NORTH" -> "SOUTH"
      [] d = "SOUTH" -> "NORTH"
      [] d = "EAST" -> "WEST"
      [] d = "WEST" -> "EAST"

Towards(t, d) ==
    CASE d = "NORTH" -> << t[1], t[2] + 1 >>
      [] d = "SOUTH" -> << t[1], t[2] - 1 >>
      [] d = "EAST" -> << t[1] + 1, t[2] >>
      [] d = "WEST" -> << t[1] - 1, t[2] >>

HopHasFreePair(s, t, d) ==
    /\ Towards(t, d) \in Tiles
    /\ FirstCommonBit(s.cc[t][MasterField(d)],
                      s.cc[Towards(t, d)][SlaveField(Opposite(d))]) # -1

NotBlackListed(RouteConstraints) == Tiles \ RouteConstraints.BlackListedCores

Admitted(RouteConstraints) ==
    IF RouteConstraints.WhiteListedCores = {} THEN NotBlackListed(RouteConstraints)
    ELSE NotBlackListed(RouteConstraints) \cap RouteConstraints.WhiteListedCores

OneHopFrom(s, allowed, R) ==
    R \cup { t \in allowed : \E u \in R, d \in Directions :
                                Towards(u, d) = t /\ HopHasFreePair(s, u, d) }

\* the tiles a valid path of at most n hops leads to from source
RECURSIVE ReachedWithin(_, _, _, _)
ReachedWithin(s, allowed, source, n) ==
    IF n = 0 THEN {source} \cap allowed
    ELSE OneHopFrom(s, allowed, ReachedWithin(s, allowed, source, n - 1))

MaxHops == Cardinality(Tiles) - 1

ValidPathExists(s, allowed, source, destination) ==
    destination \in ReachedWithin(s, allowed, source, MaxHops)

\* number of tiles of the shortest valid path (0 if there is none)
MinTilesOnValidPath(s, allowed, source, destination) ==
    IF ~ValidPathExists(s, allowed, source, destination) THEN 0
    ELSE 1 + CHOOSE n \in 0 .. MaxHops :
                /\ destination \in ReachedWithin(s, allowed, source, n)
                /\ \A m \in 0 .. n - 1 :
                      destination \notin ReachedWithin(s, allowed, source, m)

FreeIngress(s, t) ==
    IF _XAie_isShimTile(s, t) THEN FirstAvailablePort(Host2AIEPortsOf(s, t)) # -1
    ELSE s.cc[t].MM2S_State # 0

FreeEgress(s, t) ==
    IF _XAie_isShimTile(s, t) THEN FirstAvailablePort(AIE2HostPortsOf(s, t)) # -1
    ELSE s.cc[t].S2MM_State # 0

HoldsRoute(s, source, destination) ==
    \E k \in 1 .. Len(s.cc[source].routesDB.list) :
        RouteMatches(s.cc[source].routesDB.list[k], source, destination)

\* the tiles of the route the catalog of s holds for (source, destination)
TilesOnRoute(s, source, destination) ==
    LET steps == _XAie_findRouteInRouteDB(s.cc[source].routesDB,
                                          source, destination).routePath.nextStep
    IN [k \in 1 .. Len(steps) |-> steps[k].sourceTile]

RouteProgrammed ==
    /\ RouteReturned("XAIE_OK")
    /\ last.source # last.destination

\* C3: XAie_Route succeeds whenever, in the state it is called in, there is
\* a valid path from source to destination (neighbouring tiles, none black
\* listed, all white listed if the white list is not empty, a common free
\* index on every hop), the source has a free ingress and the destination a
\* free egress.  (Stated for calls whose backend calls all succeed and whose
\* pair is not already in the catalog.)
C3_ValidPathIsRouted ==
    ( /\ last.op = "XAie_Route"
      /\ last.failAt = 0
      /\ ~HoldsRoute(pre, last.source, last.destination)
      /\ ValidPathExists(pre, Admitted(last.RouteConstraints),
                         last.source, last.destination)
      /\ FreeIngress(pre, last.source)
      /\ FreeEgress(pre, last.destination) )
    => last.rc = "XAIE_OK"

\* C4: the route a successful XAie_Route programs has as many tiles as the
\* shortest valid path of the state the call was made in.  (Stated for calls
\* without constraints.)
C4_ProgrammedRouteIsShortest ==
    ( RouteProgrammed /\ last.RouteConstraints = NoConstraints )
    => Len(TilesOnRoute(st, last.source, last.destination))
         = MinTilesOnValidPath(pre, Tiles, last.source, last.destination)

\* C5: no tile of the route a successful XAie_Route programs, source and
\* destination included, is black listed.
C5_NoBlackListedTileOnRoute ==
    RouteProgrammed =>
        \A k \in DOMAIN TilesOnRoute(st, last.source, last.destination) :
            ~_XAie_isTileBlackListed(TilesOnRoute(st, last.source, last.destination)[k],
                                     last.RouteConstraints)

\* C6: with a non-empty white list, every tile of the route a successful
\* XAie_Route programs, source and destination included, is white listed.
C6_OnlyWhiteListedTilesOnRoute ==
    ( RouteProgrammed /\ last.RouteConstraints.WhiteListedCores # {} ) =>
        \A k \in DOMAIN TilesOnRoute(st, last.source, last.destination) :
            _XAie_isTileWhitelisted(TilesOnRoute(st, last.source, last.destination)[k],
                                    last.RouteConstraints)

\* every route of the catalog: <<tile whose list holds it, position in the list>>
RoutesOf(s) ==
    UNION { { << t, k >> : k \in 1 .. Len(s.cc[t].routesDB.list) } : t \in Tiles }

RouteAt(s, r) == s.cc[r[1]].routesDB.list[r[2]]

C8_MasterMatchesNeighbourSlave ==
    \A t \in Tiles, d \in Directions :
        Towards(t, d) \in Tiles =>
            \A i \in 0 .. 7 :
                BitSet(st.cc[t][MasterField(d)], i)
                  <=> BitSet(st.cc[Towards(t, d)][SlaveField(Opposite(d))], i)

PortFields == MaskFields \ { "BDState" }

\* the two port bits a step holds: <<tile, field of the table, index>>
StepEnds(step) ==
    { << step.sourceTile, SlaveField(step.source_direction), step.sourceStream >>,
      << step.sourceTile, MasterField(step.dest_direction), step.destStream >> }

\* the steps of the catalog that hold a bit: <<route, position of the step>>
StepsHolding(s, end) ==
    UNION { { << r, j >> : j \in { j \in 1 .. Len(RouteAt(s, r).nextStep) :
                                     end \in StepEnds(RouteAt(s, r).nextStep[j]) } }
            : r \in RoutesOf(s) }

\* C9: every fabric-port or MM2S/S2MM bit that was free after
\* XAie_InitRoutingHandler and is reserved now is an end of exactly one step
\* of exactly one route of the catalog.
C9_ReservedBitHasOneOwner ==
    \A t \in Tiles, f \in PortFields, i \in 0 .. 7 :
        ( /\ BitSet(XAie_InitRoutingHandler.cc[t][f], i)
          /\ ~BitSet(st.cc[t][f], i) )
        => Cardinality(StepsHolding(st, << t, f, i >>)) = 1

\* C10: as long as a route is in the catalog, whatever calls are made
\* (failing ones included), the slave bit and the master bit of each of its
\* steps are reserved; after the XAie_DeRoute that removes it both are free.
C10_StepsReservedWhileRouted ==
    /\ \A r \in RoutesOf(st) :
          \A j \in 1 .. Len(RouteAt(st, r).nextStep) :
              \A end \in StepEnds(RouteAt(st, r).nextStep[j]) :
                  ~BitSet(st.cc[end[1]][end[2]], end[3])
    /\ DeRouteReturned("XAIE_OK") =>
          \A j \in DOMAIN TilesOnRoute(pre, last.source, last.destination) :
              \A end \in StepEnds(_XAie_findRouteInRouteDB(pre.cc[last.source].routesDB,
                                      last.source, last.destination).routePath.nextStep[j]) :
                  BitSet(st.cc[end[1]][end[2]], end[3])

ShimTiles == { t \in Tiles : _XAie_isShimTile(st, t) }

MemTiles == { t \in Tiles : _XAie_isMemTile(st, t) }

\* C11: in every state reached by XAie_Route and XAie_DeRoute calls, every
\* shim tile has MasterSouth = 0 and SlaveSouth = 0, also after a route that
\* starts or ends on that shim tile was programmed and removed.
C11_ShimSouthMasksStayZero ==
    \A t \in ShimTiles : st.cc[t].MasterSouth = 0 /\ st.cc[t].SlaveSouth = 0

EastWest == { "EAST", "WEST" }

\* C12: in every reachable state every memory tile has MasterEast =
\* MasterWest = SlaveEast = SlaveWest = 0, and no step of a catalog route that
\* is on a memory tile has EAST or WEST as its slave or master direction.
C12_MemTilesHaveNoEastWest ==
    /\ \A t \in MemTiles :
          /\ st.cc[t].MasterEast = 0 /\ st.cc[t].MasterWest = 0
          /\ st.cc[t].SlaveEast = 0 /\ st.cc[t].SlaveWest = 0
    /\ \A r \in RoutesOf(st) :
          \A j \in 1 .. Len(RouteAt(st, r).nextStep) :
              LET step == RouteAt(st, r).nextStep[j]
              IN step.sourceTile \in MemTiles =>
                    /\ step.source_direction \notin EastWest
                    /\ step.dest_direction \notin EastWest

\* a route was programmed between two memory tiles of one row
C12_RouteBetweenMemTiles ==
    /\ RouteProgrammed
    /\ last.source \in MemTiles /\ last.destination \in MemTiles
    /\ HoldsRoute(st, last.source, last.destination)

EndDirection(s, tile) == IF _XAie_isShimTile(s, tile) THEN "SOUTH" ELSE "DMA"

\* C13: for every route of the catalog, the slave direction of the first
\* step is DMA when the source is an AIE or memory tile and SOUTH when it is
\* a shim tile; the master direction of the last step is DMA when the
\* destination is an AIE or memory tile and SOUTH when it is a shim tile.
C13_EndStepsUseDmaOrSouth ==
    \A r \in RoutesOf(st) :
        LET route == RouteAt(st, r)
            steps == route.nextStep
        IN steps # << >> =>
              /\ steps[1].source_direction = EndDirection(st, route.source)
              /\ steps[Len(steps)].dest_direction = EndDirection(st, route.destination)

\* the catalog holds a route that starts on a shim tile and one that ends on one
C13_ShimEndedRoutesHeld ==
    /\ \E r \in RoutesOf(st) : _XAie_isShimTile(st, RouteAt(st, r).source)
    /\ \E r \in RoutesOf(st) : _XAie_isShimTile(st, RouteAt(st, r).destination)
    /\ \E r \in RoutesOf(st) : ~_XAie_isShimTile(st, RouteAt(st, r).source)

\* C14: for every route of the catalog, in every reachable state (also after
\* XAie_Route calls that failed), and every two consecutive steps k, k + 1:
\* step k + 1 is on the neighbour of step k's tile in step k's master
\* direction, its slave direction is the opposite direction, and its slave
\* port index is step k's master port index.
C14_SameWireAcrossJunctions ==
    \A r \in RoutesOf(st) :
        LET steps == RouteAt(st, r).nextStep
        IN \A k \in 1 .. Len(steps) - 1 :
              /\ steps[k].dest_direction \in Directions
              /\ steps[k + 1].sourceTile = Towards(steps[k].sourceTile,
                                                   steps[k].dest_direction)
              /\ steps[k + 1].source_direction = Opposite(steps[k].dest_direction)
              /\ steps[k + 1].sourceStream = steps[k].destStream

Pairs == Tiles \X Tiles

\* C15: from the successful return of XAie_Route(src, dst), src # dst, until
\* the XAie_DeRoute of that pair, the look-up of (src, dst) in the catalog
\* (as XAie_RoutesReveal makes it) succeeds, and the route found has a
\* non-empty list of steps, one per tile of the path in the order of the
\* path, the first on src and the last on dst.
C15_CataloguedRouteIsFound ==
    /\ \A r \in RoutesOf(st) :
          LET route == RouteAt(st, r)
              steps == route.nextStep
              shown == XAie_RoutesReveal(st, route.source, route.destination)
          IN /\ r[1] = route.source
             /\ shown.rc = "XAIE_OK"
             /\ steps # << >>
             /\ steps[1].sourceTile = route.source
             /\ steps[Len(steps)].sourceTile = route.destination
             /\ shown.Grid = { steps[k].sourceTile : k \in 1 .. Len(steps) }
             /\ \A j \in 1 .. Len(steps), k \in 1 .. Len(steps) :
                   steps[j].sourceTile = steps[k].sourceTile => j = k
             /\ \A k \in 1 .. Len(steps) - 1 :
                   \E d \in Directions :
                       steps[k + 1].sourceTile = Towards(steps[k].sourceTile, d)
    /\ RouteProgrammed =>
          /\ HoldsRoute(st, last.source, last.destination)
          /\ TilesOnRoute(st, last.source, last.destination)
               = _XAie_findShortestPath(pre, last.RouteConstraints,
                                        last.source, last.destination).path
    /\ \A p \in Pairs :
          ( HoldsRoute(pre, p[1], p[2]) /\ ~HoldsRoute(st, p[1], p[2]) )
          => ( DeRouteReturned("XAIE_OK")
               /\ last.source = p[1] /\ last.destination = p[2] )

\* a route is still found after a later call that was not its XAie_DeRoute
C15_RouteSurvivesOtherCall ==
    /\ last.op \in { "XAie_DeRoute", "XAie_MoveData", "XAie_Route" }
    /\ last.rc # "CRASH"
    /\ \E p \in Pairs :
          /\ p # << last.source, last.destination >>
          /\ HoldsRoute(pre, p[1], p[2])
          /\ XAie_RoutesReveal(st, p[1], p[2]).rc = "XAIE_OK"

\* C16: XAie_Route(s, s) returns XAIE_OK and binds the local DMA: afterwards
\* the catalog holds a route for (s, s) that records an MM2S and an S2MM
\* channel of s, so that a later XAie_MoveData from s to s finds its route.
C16_SelfRouteIsCatalogued ==
    ( RouteReturned("XAIE_OK") /\ last.source = last.destination )
    => HoldsRoute(st, last.source, last.destination)

(***************************************************************************)
(* A third specification: the calls are made on an instance whose memory   *)
(* tile LeakTile has lost buffer descriptors.  Its initial states are      *)
(* reached from XAie_InitRoutingHandler by a successful                    *)
(* XAie_Route(LeakTile, LeakDestination) and then up to MaxLeaks calls     *)
(* XAie_MoveData(LeakTile, LeakTile), each of which takes two descriptors  *)
(* of LeakTile and returns an error because no such route is programmed.   *)
(***************************************************************************)
LeakTile == << 0, 1 >>

LeakDestination == << 0, 0 >>

InitLeak ==
    /\ LET r == XAie_Route(XAie_InitRoutingHandler, NoConstraints,
                           LeakTile, LeakDestination, 0, "null")
       IN st = r.st /\ enabled = StrmSwAfter({}, r.cct, Len(r.cct))
    /\ last = NoCall
    /\ pre = st
    /\ snap = NoSnap
    /\ ncalls = MaxCalls - MaxWarmCalls
    /\ poll = NoPoll

TakenBDs(s, tile) == (0 .. MAX_BUFFER_IDS_FIND - 1) \ s.cc[tile].BDState

\* XAie_MoveData(LeakTile, LeakTile), made before the calls that are counted:
\* the instance it leaves is one more starting instance
MoveDataLeak ==
    /\ last = NoCall
    /\ Cardinality(TakenBDs(st, LeakTile)) < 2 * MaxLeaks
    /\ \E wide \in BOOLEAN :
         st' = XAie_MoveDataStart(st, LeakTile, LeakTile, 0, wide).st
    /\ last' = NoCall
    /\ pre' = st'
    /\ UNCHANGED << snap, ncalls, poll, enabled >>

NextLeak ==
    \/ MoveDataLeak
    \/ RoutePlain
    \/ DeRoute
    \/ MoveData
    \/ RouteDmaWait
    \/ PollPending
    \/ PollError
    \/ PollDone

SpecLeak == InitLeak /\ [][NextLeak]_vars

BDMasks(s) == [t \in Tiles |-> s.cc[t].BDState]

MoveDataReturned(rc) == last.op = "XAie_MoveData" /\ last.rc = rc

\* C17: XAie_MoveData(src, dst) called while the catalog holds no route for
\* (src, dst) returns an error, takes no buffer descriptor of src or dst (the
\* BD masks keep their values) and issues no descriptor write, channel push
\* or channel enable.
C17_NoRouteNoDescriptorTaken ==
    ( last.op = "XAie_MoveData" /\ ~HoldsRoute(pre, last.source, last.destination) )
    => ( /\ last.rc = "XAIE_ERR"
         /\ BDMasks(st) = BDMasks(pre)
         /\ last.ops = << >> )

\* C18: when XAie_MoveData returns XAIE_OK the BD mask of every tile is what
\* it was when the call was made, whatever descriptors were taken before
\* (also when a memory tile hands out a descriptor numbered 16 or more).
C18_DescriptorsReturnedOnSuccess ==
    MoveDataReturned("XAIE_OK") => BDMasks(st) = BDMasks(pre)

\* C19: when XAie_MoveData returns an error, at whatever step, the BD masks of
\* both endpoints are what they were when the call was made.
C19_DescriptorsReturnedOnError ==
    MoveDataReturned("XAIE_ERR") => BDMasks(st) = BDMasks(pre)

IsChannelOrRead(o) == o \in { SourceChannelOps[1], SourceChannelOps[2],
                              DestinationChannelOps[1], DestinationChannelOps[2], PendingRead }

\* C20: within one XAie_MoveData call the channel operations come in the
\* order push and enable on the source (MM2S), push and enable on the
\* destination (S2MM), first read of the pending-BD count: no read of the
\* count precedes the destination enable, no destination enable precedes the
\* source enable, and a call that reaches its polling loop has issued all four
\* channel operations.
C20_SourceThenDestinationThenPoll ==
    last.op = "XAie_MoveData" =>
        LET order == SourceChannelOps \o DestinationChannelOps \o << PendingRead >>
            issued == SelectSeq(last.ops, IsChannelOrRead)
        IN /\ Len(issued) <= Len(order)
           /\ issued = SubSeq(order, 1, Len(issued))
           /\ last.rc \in {"PENDING", "XAIE_OK"} => Len(issued) >= 4
           /\ last.rc = "XAIE_OK" => issued = order

\* a XAie_MoveData call has read the pending count after enabling both channels
C20_PendingCountRead ==
    /\ last.op = "XAie_MoveData"
    /\ Len(last.ops) > 0
    /\ last.ops[Len(last.ops)] = PendingRead
    /\ \E i \in DOMAIN last.ops : last.ops[i] = DestinationChannelOps[2]

Waits == { "XAie_MoveData", "XAie_RouteDmaWait" }

\* C21: XAie_MoveData and XAie_RouteDmaWait return XAIE_OK only after a read
\* of the pending-BD count of the destination has reported zero, and
\* XAie_RouteDmaWait called for a pair with no catalogued route returns
\* XAIE_ERR without reading the count.
C21_OkOnlyAfterZeroCount ==
    /\ ( last.op \in Waits /\ last.rc = "XAIE_OK" )
          => ( /\ last.destPendingBDCount = 0
               /\ Len(last.ops) > 0
               /\ last.ops[Len(last.ops)] = PendingRead )
    /\ ( last.op = "XAie_RouteDmaWait" /\ ~HoldsRoute(pre, last.source, last.destination) )
          => ( last.rc = "XAIE_ERR" /\ last.ops = << >> )

Executing(s) == [t \in Tiles |-> s.cc[t].isCoreExecuting]

\* C22: XAie_DeRoute(src, dst, flag) called while the catalog holds no route
\* for (src, dst), whether src has no route at all or only routes to other
\* destinations, returns XAIE_ERR, leaves every mask, every isCoreExecuting
\* flag and the catalog as they were and issues no backend call.
C22_DeRouteOfAbsentRouteIsRefused ==
    ( last.op = "XAie_DeRoute" /\ ~HoldsRoute(pre, last.source, last.destination) )
    => ( /\ last.rc = "XAIE_ERR"
         /\ Masks(st) = Masks(pre)
         /\ Executing(st) = Executing(pre)
         /\ Catalog(st) = Catalog(pre)
         /\ last.cct = << >> )

\* the steps of the route the catalog of s holds for (source, destination)
StepsOfRoute(s, source, destination) ==
    _XAie_findRouteInRouteDB(s.cc[source].routesDB, source, destination).routePath.nextStep

\* C23: XAie_DeRoute issues its XAie_StrmConnCctDisable calls for the steps of
\* the route in reverse path order: the first call is for the step on the
\* destination tile, the last for the step on the source tile.
C23_DeRouteDisablesInReverse ==
    ( last.op = "XAie_DeRoute" /\ HoldsRoute(pre, last.source, last.destination) )
    => LET steps == StepsOfRoute(pre, last.source, last.destination)
       IN \A k \in DOMAIN last.cct :
             /\ last.cct[k].call = "XAie_StrmConnCctDisable"
             /\ last.cct[k].step = steps[Len(steps) + 1 - k]

\* the pairs the catalog of s holds a route for
PairsRouted(s) == { p \in Pairs : HoldsRoute(s, p[1], p[2]) }

StepsReserved(s, steps) ==
    \A j \in DOMAIN steps : \A end \in StepEnds(steps[j]) : ~BitSet(s.cc[end[1]][end[2]], end[3])

C25_DeRouteClearsEndpointFlagsOnly ==
    DeRouteReturned("XAIE_OK") =>
        \A t \in Tiles :
            Executing(st)[t] =
                IF last.flag /\ t \in { last.source, last.destination } /\ isAieTile(t[2])
                THEN FALSE
                ELSE Executing(pre)[t]

\* a route has been removed with the flag set, clearing isCoreExecuting of one
\* endpoint while another tile keeps executing
C25_FlagClearedOnOneEndpoint ==
    /\ DeRouteReturned("XAIE_OK")
    /\ last.flag
    /\ \E t \in { last.source, last.destination } : Executing(pre)[t] /\ ~Executing(st)[t]
    /\ \E t \in Tiles : Executing(st)[t]

\* the steps of all the routes of the catalog of s
CataloguedSteps(s) ==
    UNION { { RouteAt(s, r).nextStep[j] : j \in 1 .. Len(RouteAt(s, r).nextStep) } :
            r \in RoutesOf(s) }

\* C26: between public calls, after any sequence of XAie_Route and
\* XAie_DeRoute calls (failing ones included), the stream-switch connections
\* enabled on the backend and not disabled since are the steps of the routes
\* of the catalog.
C26_BackendMatchesCatalog ==
    enabled = CataloguedSteps(st)

Abs(n) == IF n < 0 THEN 0 - n ELSE n

Manhattan(a, b) == Abs(a[1] - b[1]) + Abs(a[2] - b[2])

ComputeOrShim(t) == isAieTile(t[2]) \/ isShimTileRow(t[2])

\* XAie_Route has just returned for two distinct compute or shim tiles, called
\* without constraints and with no backend call failing
PlainRouteReturned ==
    /\ last.op = "XAie_Route" /\ last.failAt = 0
    /\ last.RouteConstraints = NoConstraints
    /\ last.source # last.destination
    /\ ComputeOrShim(last.source) /\ ComputeOrShim(last.destination)

RoutedWithManhattanSteps ==
    /\ last.rc = "XAIE_OK"
    /\ Len(StepsOfRoute(st, last.source, last.destination))
         = Manhattan(last.source, last.destination) + 1

\* C27: on a freshly initialised instance XAie_Route without constraints
\* between two distinct tiles that are compute or shim tiles succeeds and the
\* route has |dCol| + |dRow| + 1 steps; so does a second XAie_Route that
\* shares an endpoint with the first or is its reverse.
C27_RouteHasManhattanSteps ==
    /\ ( PlainRouteReturned /\ pre = XAie_InitRoutingHandler ) => RoutedWithManhattanSteps
    /\ ( /\ PlainRouteReturned
         /\ ncalls = 2
         /\ \E p \in Pairs :
               /\ PairsRouted(pre) = { p }
               /\ ComputeOrShim(p[1]) /\ ComputeOrShim(p[2])
               /\ { p[1], p[2] } \cap { last.source, last.destination } # {}
               /\ p # << last.source, last.destination >> )
       => RoutedWithManhattanSteps

PortBits == 0 .. ResetPortBits - 1

ResetDirectionSet == { ResetDirections[k] : k \in DOMAIN ResetDirections }

\* the connections XAie_SStrmConnCctDisable was called for by the last call
DisableCalled == { last.cct[k].step : k \in DOMAIN last.cct }

BothBitsReserved(s, c) ==
    /\ ~BitSet(s.cc[c.sourceTile][SlaveField(c.source_direction)], c.sourceStream)
    /\ ~BitSet(s.cc[c.sourceTile][MasterField(c.dest_direction)], c.destStream)

\* C28: for a listed tile that is not auto-configured XAie_RoutingSwitchReset
\* issues a disable call for (slave direction, slave port, master direction,
\* master port) exactly when the bit of the slave port in the tile's mask of
\* the slave direction and the bit of the master port in its mask of the
\* master direction are both reserved (cleared), and none when one is free.
C28_ResetDisablesReservedPairs ==
    ( last.op = "XAie_RoutingSwitchReset" /\ last.failAt = 0 ) =>
        \A i \in DOMAIN last.listOfTiles :
            ~pre.cc[last.listOfTiles[i]].isAutoConfigured =>
                \A sd \in ResetDirectionSet, md \in ResetDirectionSet :
                    \A sp \in PortBits, mp \in PortBits :
                        LET c == NewStep(last.listOfTiles[i], sd, sp, md, mp)
                        IN c \in DisableCalled <=> BothBitsReserved(pre, c)

\* what the finder may have marked visited when it looks at an edge
VisitedInputs == { {} } \cup { {t} : t \in Tiles }

\* C29: in the path finder the edge from the dequeued tile cur to its
\* neighbour nbr in direction d is accepted if and only if nbr is inside the
\* grid, is not blacklisted, has not been visited, and some port index is free
\* both in cur's master mask of d and in nbr's slave mask of the opposite
\* direction.
C29_EdgeAcceptedIffFreePair ==
    \A cur \in Tiles, i \in DOMAIN StrmSwPort :
        \A RouteConstraints \in BlackListInputs, visited \in VisitedInputs :
            LET d == StrmSwPort[i]
                nbr == XAie_TileLoc(cur[1] + dCol[i], cur[2] + dRow[i])
            IN _XAie_isAdjTileValidForCurrTile(st, RouteConstraints, cur, nbr, d, visited)
               <=> ( /\ nbr \in Tiles
                     /\ ~_XAie_isTileBlackListed(nbr, RouteConstraints)
                     /\ nbr \notin visited
                     /\ HopHasFreePair(st, cur, d) )

\* C30: with a non-empty white list, _XAie_findShortestPath finds a path
\* whenever the state XAie_Route is called in has a valid path made of white
\* listed tiles only (however long), also when the first parent chain that
\* reaches the destination holds a tile that is not white listed; it reports
\* no path only when there is no such path.
C30_WhiteListedPathIsFound ==
    ( /\ last.op = "XAie_Route"
      /\ last.RouteConstraints.WhiteListedCores # {}
      /\ last.source # last.destination
      /\ ValidPathExists(pre, Admitted(last.RouteConstraints),
                         last.source, last.destination) )
    => _XAie_findShortestPath(pre, last.RouteConstraints,
                              last.source, last.destination).ok

\* hop i of a path has a port index free in both the master mask of its tile
\* towards the next tile and the slave mask of the next tile facing back
HopOfPathHasFreePair(s, path, i) ==
    \E d \in Directions : Towards(path[i], d) = path[i + 1] /\ HopHasFreePair(s, path[i], d)

PathFoundFor(s, call) ==
    _XAie_findShortestPath(s, call.RouteConstraints, call.source, call.destination)

\* C31: whenever _XAie_findShortestPath returns a path for an XAie_Route call
\* (one that gets as far as the finder: the pair is not in the catalog),
\* every hop of that path has, in the table the call was made in, a port index
\* free in both the master mask of the hop's tile and the slave mask of the
\* next tile, so findFirstMatchingStreamForDestination finds one.
C31_FoundPathHasFreePairs ==
    ( /\ last.op = "XAie_Route"
      /\ last.source # last.destination
      /\ last.rc # "CRASH"
      /\ ~HoldsRoute(pre, last.source, last.destination)
      /\ PathFoundFor(pre, last).ok )
    => \A i \in 1 .. Len(PathFoundFor(pre, last).path) - 1 :
            HopOfPathHasFreePair(pre, PathFoundFor(pre, last).path, i)

\* the ports of the entries of a mapping whose availability flag is true
AvailablePorts(mapping) ==
    { mapping[i].port : i \in { j \in 1 .. Len(mapping) : mapping[j].availability } }

\* C32: the first step of a route XAie_Route programs from a shim tile takes
\* its slave port on SOUTH, and that port is the port of an entry of the
\* tile's host-to-array mapping that was available when XAie_Route was
\* called; with no available entry (all in use, or the mapping removed by
\* XAie_ResetHostEdgeConstraints) the call does not succeed.
C32_ShimSourceTakesAvailableEntry ==
    ( RouteProgrammed /\ _XAie_isShimTile(pre, last.source) )
    => ( /\ StepsOfRoute(st, last.source, last.destination)[1].source_direction = "SOUTH"
         /\ StepsOfRoute(st, last.source, last.destination)[1].sourceStream
               \in AvailablePorts(Host2AIEPortsOf(pre, last.source)) )

\* mapping with the availability flag of the entries of one port set to FALSE
WithPortTaken(mapping, port) ==
    [i \in 1 .. Len(mapping) |->
        IF mapping[i].port = port THEN [mapping[i] EXCEPT !.availability = FALSE]
        ELSE mapping[i]]

LastStepOf(s, source, destination) ==
    StepsOfRoute(s, source, destination)[Len(StepsOfRoute(s, source, destination))]

\* a successful XAie_Route marks the entry it chose in the mapping of its shim
\* endpoint, and no other entry of that mapping, unavailable; with no shim
\* endpoint on that side no flag changes
RouteTakesChosenEntries ==
    RouteProgrammed =>
        /\ IF _XAie_isShimTile(pre, last.source)
           THEN Host2AIEPortsOf(st, last.source)
                  = WithPortTaken(Host2AIEPortsOf(pre, last.source),
                        StepsOfRoute(st, last.source, last.destination)[1].sourceStream)
           ELSE st.h2a = pre.h2a
        /\ IF _XAie_isShimTile(pre, last.destination)
           THEN AIE2HostPortsOf(st, last.destination)
                  = WithPortTaken(AIE2HostPortsOf(pre, last.destination),
                        LastStepOf(st, last.source, last.destination).destStream)
           ELSE st.a2h = pre.a2h

\* XAie_Route(src, dst) followed at once by a successful XAie_DeRoute(src, dst)
\* leaves every availability flag as it was before the XAie_Route
DeRouteGivesEntriesBack ==
    ( /\ DeRouteReturned("XAIE_OK")
      /\ snap.taken
      /\ snap.source = last.source /\ snap.destination = last.destination
      /\ last.source # last.destination )
    => ( st.h2a = snap.h2a /\ st.a2h = snap.a2h )

\* C33: a successful XAie_Route with a shim source and/or a shim destination
\* marks exactly the host-to-array and/or array-to-host entry it chose
\* unavailable, and the successful XAie_DeRoute of that route marks it
\* available again: after the two calls every availability flag of the shim
\* mappings has the value it had before the XAie_Route.
C33_RouteDeRouteRestoresShimEntries ==
    RouteTakesChosenEntries /\ DeRouteGivesEntriesBack

\* the calls of one name among the backend calls of the last call, in order
CallsNamed(name) ==
    SelectSeq(last.cct, LAMBDA c : c.call = name)

\* C34: the XAie_StrmConnCctEnable calls a successful XAie_Route issues are,
\* in order, the steps of the route it programs, one call per step, the
\* steps following the path from source to destination; a shim port enable
\* call is issued once for a shim source (on the source tile) and once for a
\* shim destination (on the destination tile), and for no other tile.
C34_EnableCallsFollowTheSteps ==
    RouteProgrammed =>
        LET steps == StepsOfRoute(st, last.source, last.destination)
            path == PathFoundFor(pre, last).path
            enables == CallsNamed("XAie_StrmConnCctEnable")
            toAie == CallsNamed("XAie_EnableShimDmaToAieStrmPort")
            toShim == CallsNamed("XAie_EnableAieToShimDmaStrmPort")
        IN /\ [k \in 1 .. Len(enables) |-> enables[k].step] = steps
           /\ [k \in 1 .. Len(steps) |-> steps[k].sourceTile] = path
           /\ Len(toAie) = (IF _XAie_isShimTile(pre, last.source) THEN 1 ELSE 0)
           /\ \A k \in 1 .. Len(toAie) : toAie[k].step.sourceTile = last.source
           /\ Len(toShim) = (IF _XAie_isShimTile(pre, last.destination) THEN 1 ELSE 0)
           /\ \A k \in 1 .. Len(toShim) : toShim[k].step.sourceTile = last.destination

\* a route into a shim tile that passes through another shim tile was programmed
C34_RouteThroughShimTile ==
    /\ RouteProgrammed
    /\ _XAie_isShimTile(pre, last.destination)
    /\ Len(last.cct) >= 4
    /\ \E k \in 1 .. Len(last.cct) :
          /\ last.cct[k].call = "XAie_StrmConnCctEnable"
          /\ _XAie_isShimTile(pre, last.cct[k].step.sourceTile)
          /\ last.cct[k].step.sourceTile \notin {last.source, last.destination}

\* C35: with the mappings XAie_InitRoutingHandler installs, a successful
\* XAie_Route or XAie_DeRoute changes availability flags only in the mappings
\* of the shim tiles that are its source or destination: every other shim
\* tile sees the flags of its host-to-array and array-to-host mappings
\* unchanged.
C35_OtherShimTilesKeepTheirFlags ==
    ( last.op \in {"XAie_Route", "XAie_DeRoute"} /\ last.rc = "XAIE_OK" )
    => \A B \in ShimTiles \ {last.source, last.destination} :
          /\ Host2AIEPortsOf(st, B) = Host2AIEPortsOf(pre, B)
          /\ AIE2HostPortsOf(st, B) = AIE2HostPortsOf(pre, B)

\* the catalog routes of s that start / end on tile t
RoutesFrom(s, t) == { r \in RoutesOf(s) : RouteAt(s, r).source = t }

RoutesInto(s, t) == { r \in RoutesOf(s) : RouteAt(s, r).destination = t }

\* the number of MM2S / S2MM channels XAie_InitRoutingHandler gives a tile
\* (2 for an AIE tile, 6 for a memory tile)
ChannelCount(t, field) ==
    Cardinality({ i \in 0 .. 7 : BitSet(XAie_InitRoutingHandler.cc[t][field], i) })

\* C36: two distinct routes of the catalog that start on the same AIE or
\* memory tile record different MM2S channels, and two that end on the same
\* AIE or memory tile record different S2MM channels; so an AIE tile is the
\* source of at most 2 and the destination of at most 2 routes of the catalog
\* (6 for a memory tile), and XAie_Route does not succeed for a further route
\* on an endpoint that already has that many.
C36_EndpointChannelsAreDistinct ==
    /\ \A r1 \in RoutesOf(st), r2 \in RoutesOf(st) :
          r1 # r2 =>
            /\ ( /\ RouteAt(st, r1).source = RouteAt(st, r2).source
                 /\ ~_XAie_isShimTile(st, RouteAt(st, r1).source) )
               => RouteAt(st, r1).MM2S_portNo # RouteAt(st, r2).MM2S_portNo
            /\ ( /\ RouteAt(st, r1).destination = RouteAt(st, r2).destination
                 /\ ~_XAie_isShimTile(st, RouteAt(st, r1).destination) )
               => RouteAt(st, r1).S2MM_portNo # RouteAt(st, r2).S2MM_portNo
    /\ \A t \in Tiles \ ShimTiles :
          /\ Cardinality(RoutesFrom(st, t)) <= ChannelCount(t, "MM2S_State")
          /\ Cardinality(RoutesInto(st, t)) <= ChannelCount(t, "S2MM_State")
    /\ ( /\ last.op = "XAie_Route"
         /\ last.source # last.destination
         /\ \/ /\ ~_XAie_isShimTile(pre, last.source)
               /\ Cardinality(RoutesFrom(pre, last.source))
                     >= ChannelCount(last.source, "MM2S_State")
            \/ /\ ~_XAie_isShimTile(pre, last.destination)
               /\ Cardinality(RoutesInto(pre, last.destination))
                     >= ChannelCount(last.destination, "S2MM_State") )
       => last.rc # "XAIE_OK"

\* an XAie_Route call that got as far as the finder and failed there
RouteFoundNoPath ==
    /\ RouteReturned("XAIE_ERR")
    /\ ~HoldsRoute(pre, last.source, last.destination)
    /\ ~PathFoundFor(pre, last).ok

\* C37: an XAie_Route call that fails because _XAie_findShortestPath finds no
\* path leaves the whole table as it was (every mask, isAutoConfigured,
\* isCoreExecuting, both shim mappings, the catalog) and issues no backend call.
C37_NoPathLeavesTableAlone ==
    RouteFoundNoPath => st = pre /\ last.cct = << >>

\* the finder failed in a table that holds a route and for a compute endpoint
\* whose isCoreExecuting flag is not set
C37_NoPathAmongRoutes ==
    /\ RouteFoundNoPath
    /\ RoutesOf(pre) # {}
    /\ \E t \in {last.source, last.destination} :
          isAieTile(t[2]) /\ ~pre.cc[t].isCoreExecuting

\* the compute tiles that are the source or the destination of a route of the catalog
ComputeEndpoints(s) ==
    { t \in Tiles : /\ isAieTile(t[2])
                    /\ \E r \in RoutesOf(s) :
                          t \in {RouteAt(s, r).source, RouteAt(s, r).destination} }

TilesOnRoutes(s) ==
    UNION { { RouteAt(s, r).nextStep[k].sourceTile : k \in DOMAIN RouteAt(s, r).nextStep }
            : r \in RoutesOf(s) }

\* C39: XAie_RoutingSwitchReset issues no disable call for a tile on the path
\* of a route of the catalog (every such tile has isAutoConfigured set and is
\* skipped), and it leaves the whole table as it was: masks, flags, catalog.
C39_ResetSparesRoutedTiles ==
    last.op = "XAie_RoutingSwitchReset" =>
        /\ \A t \in TilesOnRoutes(pre) : pre.cc[t].isAutoConfigured
        /\ \A k \in DOMAIN last.cct : last.cct[k].step.sourceTile \notin TilesOnRoutes(pre)
        /\ st = pre

\* a reset whose list names a tile on a route and a tile it issues calls for
C39_ResetOfRoutedAndIdleTile ==
    /\ last.op = "XAie_RoutingSwitchReset"
    /\ \E i \in DOMAIN last.listOfTiles : last.listOfTiles[i] \in TilesOnRoutes(pre)
    /\ last.cct # << >>

\* C40: with hardware that eventually reports a pending-BD count of zero, an
\* XAie_MoveData or XAie_RouteDmaWait call that has reached its polling loop
\* eventually returns; and the loop has no other exit: a call that polls
\* stops polling only in a step whose read reported zero, so while the reads
\* report a non-zero count or fail it keeps polling.
C40_PollEndsOnlyAndEventuallyOnZero ==
    /\ (poll.active ~> ~poll.active)
    /\ [][ (poll.active /\ ~poll'.active)
             => (last'.destPendingBDCount = 0 /\ last.destPendingBDCount # 0) ]_vars
    /\ [](poll.active => (last.op \in Waits /\ last.rc = "PENDING"
                          /\ last.destPendingBDCount # 0))

\* an XAie_MoveData call on a programmed route whose loop saw a failed read
\* and went on until a read reported zero
C40_ReturnedAfterFailedRead ==
    /\ last.op = "XAie_MoveData"
    /\ HoldsRoute(pre, last.source, last.destination)
    /\ last.destPendingBDCount = 0
    /\ last.rc = "XAIE_ERR"
    /\ ~poll.active
====
